---- MODULE Spec2Model ----
(***************************************************************************)
(* Verification model of the forecast-and-decision pipeline of the         *)
(* badminton wind predictor: the decision rules (src/decision/rules.py),   *)
(* the two forecasters (src/models/baseline.py, src/models/lstm_model.py)  *)
(* and the feature builder (src/data/preprocess.py).                       *)
(*                                                                         *)
(* Wind speeds are integers in cm/s (3.33 m/s = 333), probabilities are    *)
(* integers in per-mille (0.1 = 100, 1.0 = 1000).                          *)
(***************************************************************************)
EXTENDS Integers, Sequences, FiniteSets, TLC

VARIABLES
    dp_args,        \* arguments of the pending/last decide_play call
    dp_file,        \* content of thresholds.json: <<>> (no file) or <<thresholds>>
    dp_result,      \* <<>> before the call, <<outcome>> after it
    lstm,           \* the LSTMForecaster instance's fields
    pers,           \* the PersistenceModel instance's fields
    fs_models,      \* model files on disk: path -> <<>> or <<weights>>
    fs_scalers,     \* scaler.npz per directory: dir -> <<>> or <<scaler bundle>>
    fc_done,        \* which instances have had a fit or load return normally
    fc_last,        \* outcome of the last forecaster call
    fc_saved,       \* <<>> or <<record of the save that was the last call>>
    fc_calls,       \* number of forecaster calls made so far
    bf_raw,         \* raw observation table handed to build_features / fill_small_gaps
    bf_gap,         \* max_gap_hours argument of the fill_small_gaps call made (0: none)
    bf_out,         \* <<>> before the call, <<outcome>> after it
    q_out,          \* <<>> or <<the compute_q90 / make_forecast call made, with its log>>
    bt_out,         \* <<>> or <<the backtest / metrics call made>>
    sc_out,         \* <<>> or <<the safety score / alternative times call made>>
    th_heap,        \* <<>> or <<the threshold objects in memory and the decisions made from them>>
    fc_hist,        \* <<>> or <<which call set each field of an instance, and what was saved where>>
    pr_threads      \* <<>> or <<predict calls in progress on one fitted instance>>

vars == <<dp_args, dp_file, dp_result, lstm, pers, fs_models, fs_scalers,
          fc_done, fc_last, fc_saved, fc_calls, bf_raw, bf_gap, bf_out,
          q_out, bt_out, sc_out, th_heap, fc_hist, pr_threads>>

dp_vars == <<dp_args, dp_file, dp_result>>
fc_vars == <<lstm, pers, fs_models, fs_scalers, fc_done, fc_last, fc_saved, fc_calls>>
bf_vars == <<bf_raw, bf_gap, bf_out>>
ux_vars == <<q_out, bt_out, sc_out, th_heap, fc_hist, pr_threads>>

(***************************************************************************)
(* Generic helpers                                                         *)
(***************************************************************************)
None == <<>>

Some(x) == <<x>>

IsSome(o) == o /= <<>>

Get(o) == o[1]

Range(s) == {s[i] : i \in DOMAIN s}

Max(a, b) == IF a >= b THEN a ELSE b

Min(a, b) == IF a <= b THEN a ELSE b

RECURSIVE SeqMax(_)
SeqMax(s) == IF Len(s) = 1 THEN s[1] ELSE Max(s[1], SeqMax(Tail(s)))

\* All sequences over S of length at most n
SeqsUpTo(S, n) == UNION {[1..k -> S] : k \in 0..n}

\* Sequences without repeated elements
Injective(s) == \A i, j \in DOMAIN s : i /= j => s[i] /= s[j]

(***************************************************************************)
(* Decision engine: src/decision/rules.py                                  *)
(***************************************************************************)

\* ---- bounds of the decision inputs ----
MaxKeys == 2

\* config.DEFAULT_THRESHOLDS["play"]
DEFAULT_THRESHOLDS ==
    [median_max_m_s |-> 333, q90_max_m_s |-> 500, prob_over_3m_s_max |-> Some(100)]

\* A second configuration, without the optional probability limit
CustomThresholds ==
    [median_max_m_s |-> 334, q90_max_m_s |-> 501, prob_over_3m_s_max |-> None]

ThresholdChoices == {DEFAULT_THRESHOLDS, CustomThresholds}

\* A forecast key is "horizon_<h>" or "<h>"
HorizonNames == {"1h", "3h"}

HorizonKeys == {[prefixed |-> TRUE, horizon |-> h] : h \in HorizonNames}
                   \cup {[prefixed |-> FALSE, horizon |-> "1h"]}

MedianWinds == {333, 334, 335}

Q90Winds == {500, 502}

Probs == {100, 150}

\* horizon_key.replace("horizon_", "")
StripPrefix(key) == key.horizon

\* play_thresholds.get("prob_over_3m_s_max", 1.0)
ProbMax(play) == IF IsSome(play.prob_over_3m_s_max) THEN Get(play.prob_over_3m_s_max) ELSE 1000

\* load_thresholds(): the JSON file if it exists, else a copy of the defaults
load_thresholds(file) == IF IsSome(file) THEN Get(file) ELSE DEFAULT_THRESHOLDS

MedianExceeds_Strict(median_wind, median_max) == median_wind >= median_max

\* rules.py line 100
MedianExceeds(median_wind, median_max) == median_wind > median_max

Q90Exceeds_Skipped(q90_wind, q90_max) == FALSE

\* rules.py line 107
Q90Exceeds(q90_wind, q90_max) == q90_wind > q90_max

ProbExceeds_Skipped(prob, prob_max) == FALSE

\* rules.py line 118
ProbExceeds(prob, prob_max) == prob > prob_max

\* One iteration of the loop body of decide_play (lines 85-122) for one key.
\* acc = [violations |-> seq of violation texts, details |-> horizon -> entry]
CheckHorizon(acc, key, median_wind, q90_wind, prob, play) ==
    LET horizon == StripPrefix(key)
        mBad == MedianExceeds(median_wind, play.median_max_m_s)
        qBad == Q90Exceeds(q90_wind, play.q90_max_m_s)
        pBad == IsSome(prob) /\ ProbExceeds(Get(prob), ProbMax(play))
        mV == IF mBad THEN <<[horizon |-> horizon, what |-> "median wind",
                              value |-> median_wind, limit |-> play.median_max_m_s]>>
                      ELSE <<>>
        qV == IF qBad THEN <<[horizon |-> horizon, what |-> "q90 wind",
                              value |-> q90_wind, limit |-> play.q90_max_m_s]>>
                      ELSE <<>>
        pV == IF pBad THEN <<[horizon |-> horizon, what |-> "probability of >3 m/s",
                              value |-> Get(prob), limit |-> ProbMax(play)]>>
                      ELSE <<>>
        entry == [median_wind_m_s |-> median_wind,
                  q90_wind_m_s    |-> q90_wind,
                  passes          |-> ~(mBad \/ qBad \/ pBad),
                  violations      |-> (IF mBad THEN <<"median_too_high">> ELSE <<>>)
                                      \o (IF qBad THEN <<"q90_too_high">> ELSE <<>>)
                                      \o (IF pBad THEN <<"prob_too_high">> ELSE <<>>),
                  prob_over_3m_s  |-> prob]
    IN  [violations |-> acc.violations \o mV \o qV \o pV,
         details    |-> [h \in (DOMAIN acc.details) \cup {horizon} |->
                            IF h = horizon THEN entry ELSE acc.details[h]]]

\* The for loop of decide_play (line 84) over the keys of median_forecast, in
\* insertion order.  median is a sequence of [key, value]; q90 a function on keys;
\* prob is None or Some(function on a set of keys).
RECURSIVE CheckAll(_, _, _, _, _)
CheckAll(acc, median, q90, prob, play) ==
    IF median = <<>> THEN acc
    ELSE LET key == median[1].key
             p   == IF IsSome(prob) /\ key \in DOMAIN Get(prob)
                    THEN Some(Get(prob)[key]) ELSE None
         IN  CheckAll(CheckHorizon(acc, key, median[1].value, q90[key], p, play),
                      Tail(median), q90, prob, play)

Decision_Any(violations) == IF Len(violations) > 1 THEN "DON'T PLAY" ELSE "PLAY"

\* rules.py lines 125-133
Decision(violations) == IF Len(violations) = 0 THEN "PLAY" ELSE "DON'T PLAY"

\* decide_play (rules.py lines 43-143).  A key of median_forecast that is missing
\* from q90_forecast raises KeyError at line 86.
decide_play(median, q90, thresholds, prob, file) ==
    LET play == IF IsSome(thresholds) THEN Get(thresholds) ELSE load_thresholds(file)
        keys == {median[i].key : i \in DOMAIN median}
    IN  IF ~(keys \subseteq DOMAIN q90)
        THEN [raised |-> "KeyError"]
        ELSE LET acc == CheckAll([violations |-> <<>>, details |-> <<>>],
                                 median, q90, prob, play)
             IN  [raised     |-> "",
                  decision   |-> Decision(acc.violations),
                  reason     |-> acc.violations,
                  details    |-> acc.details,
                  thresholds |-> play]


(***************************************************************************)
(* Forecasters: src/models/baseline.py, src/models/lstm_model.py           *)
(***************************************************************************)

\* ---- bounds of the forecaster inputs ----
SequenceLength == 2     \* constructor argument sequence_length of the modelled instances

MaxHorizon == 3         \* horizons of the modelled instances are those of config.HORIZONS up to this

MaxRows == 7            \* longest table handed to predict / predict_latest

MaxCalls == 3           \* number of forecaster calls in one run

\* config.HORIZONS, restricted to the bound
HORIZONS == SelectSeq(<<1, 3, 6>>, LAMBDA h : h <= MaxHorizon)

\* max(self.horizons)
MaxOfHorizons == SeqMax(HORIZONS)

TARGET_COLUMN == "wind_m_s"

\* A table is [columns |-> ordered column names, n |-> number of rows]; row r
\* (1-based) carries the value r in every column, so rows are told apart by content.
ColumnChoices == { <<"wind_m_s", "f1", "f2">>,
                   <<"wind_m_s", "f2", "f1">>,
                   <<"f1", "f2">> }

PredictTables == [columns : ColumnChoices, n : 0..MaxRows]

\* Arguments of fit: a training table and an optional validation table
FitInputs ==
    { [train |-> [columns |-> <<"wind_m_s", "f1", "f2">>, n |-> 40], val |-> None],
      [train |-> [columns |-> <<"wind_m_s", "f2", "f1">>, n |-> 8],
       val   |-> Some([columns |-> <<"wind_m_s", "f2", "f1">>, n |-> 6])],
      [train |-> [columns |-> <<"wind_m_s", "f2", "f1">>, n |-> 4], val |-> None],
      [train |-> [columns |-> <<"wind_m_s", "f1", "f2">>, n |-> SequenceLength + MaxOfHorizons],
       val   |-> Some([columns |-> <<"wind_m_s", "f1", "f2">>, n |-> 6])],
      [train |-> [columns |-> <<"f1", "f2">>, n |-> 40], val |-> None] }

Insts == {"a"}

\* Model paths: directory, file stem, suffix
ModelPaths == ([dir : {"d1"}, stem : {"m1", "m2"}, suffix : {".h5", ".keras"}])
                  \cup ([dir : {"d2"}, stem : {"m1"}, suffix : {".h5", ".keras"}])

Dirs == {p.dir : p \in ModelPaths}

\* df[TARGET_COLUMN].values of a table: row r carries the value r
TargetValues(table) == [r \in 1..table.n |-> r]

HasColumns(table, cols) == Range(cols) \subseteq Range(table.columns)

\* preprocess.get_feature_columns (lines 241-268), exclude_target = True
get_feature_columns(table) ==
    SelectSeq(table.columns, LAMBDA c : c \notin {TARGET_COLUMN, "wind_dir_deg", "precip_mm"})

\* int(len(train_df_norm) * TRAIN_VAL_SPLIT), TRAIN_VAL_SPLIT = 0.8
SplitIdx(n) == (n * 8) \div 10

NSamples_OffByOne(n) == n - SequenceLength - MaxOfHorizons + 1

\* _create_sequences line 128
NSamples(n) == n - SequenceLength - MaxOfHorizons

\* _create_sequences line 138: rows of window i (0-based i), as 1-based row numbers
WindowRows(i) == [k \in 1..SequenceLength |-> i + k]

\* _create_sequences line 142: row (1-based) of the target of window i at horizon h
TargetRow(i, h) == i + SequenceLength + h

\* keras model output for one window and one horizon: a function of the weights,
\* of the normalisation applied (lines 253-254) and of the window's rows
Infer(inst, table, i, h) ==
    [weights |-> inst.model, mean |-> inst.scaler_mean, std |-> inst.scaler_std,
     feature_cols |-> inst.feature_cols, window |-> WindowRows(i), horizon |-> h]

\* LSTMForecaster.__init__ lines 63-66
FreshLSTM == [model |-> None, feature_cols |-> None, scaler_mean |-> None, scaler_std |-> None]

\* PersistenceModel.__init__ line 35
FreshPersistence == [is_fitted |-> FALSE]

NotFitted_Unchecked(inst) == FALSE

\* lstm_model.py line 249
NotFitted(inst) == inst.model = None

\* LSTMForecaster.predict (lines 239-274) as a function of the instance and table
lstm_predict(inst, table) ==
    IF NotFitted(inst) THEN [raised |-> "RuntimeError: not fitted"]
    ELSE IF ~IsSome(inst.feature_cols) \/ ~HasColumns(table, Get(inst.feature_cols))
    THEN [raised |-> "KeyError"]
    ELSE IF TARGET_COLUMN \notin Range(table.columns)
    THEN [raised |-> "KeyError"]
    ELSE IF NSamples(table.n) < 0
    THEN [raised |-> "ValueError: negative dimensions"]
    ELSE IF NSamples(table.n) = 0
    THEN [raised |-> "ValueError: not enough data"]
    ELSE [raised |-> "",
          kind   |-> "mapping",
          value  |-> [h \in Range(HORIZONS) |->
                        [i \in 1..NSamples(table.n) |-> Infer(inst, table, i - 1, h)]]]

LatestIndex_First(preds) == 1

\* all_preds[h][-1], lstm_model.py line 297
LatestIndex(preds) == Len(preds)

\* LSTMForecaster.predict_latest (lines 276-300)
lstm_predict_latest(inst, table) ==
    IF table.n < SequenceLength THEN [raised |-> "ValueError: need sequence_length samples"]
    ELSE LET all_preds == lstm_predict(inst, table)
         IN  IF all_preds.raised /= "" THEN all_preds
             ELSE [raised |-> "",
                   kind   |-> "latest",
                   value  |-> [h \in Range(HORIZONS) |->
                                 all_preds.value[h][LatestIndex(all_preds.value[h])]]]

\* PersistenceModel.predict (lines 57-78): an array, whatever the horizon argument
pers_predict(inst, table) ==
    IF ~inst.is_fitted THEN [raised |-> "RuntimeError: not fitted"]
    ELSE IF TARGET_COLUMN \notin Range(table.columns) THEN [raised |-> "ValueError: no target"]
    ELSE [raised |-> "", kind |-> "array", value |-> TargetValues(table)]

\* PersistenceModel.predict_all_horizons (lines 80-95)
pers_predict_all_horizons(inst, table) ==
    LET one == pers_predict(inst, table)
    IN  IF Len(HORIZONS) = 0 THEN [raised |-> "", kind |-> "mapping", value |-> <<>>]
        ELSE IF one.raised /= "" THEN one
        ELSE [raised |-> "", kind |-> "mapping",
              value |-> [h \in Range(HORIZONS) |-> one.value]]

pers_predict_latest_First(inst, table) ==
    IF table.n = 0 THEN [raised |-> "ValueError: empty"]
    ELSE IF TARGET_COLUMN \notin Range(table.columns) THEN [raised |-> "KeyError"]
    ELSE [raised |-> "", kind |-> "latest",
          value |-> [h \in Range(HORIZONS) |-> TargetValues(table)[1]]]

\* PersistenceModel.predict_latest (lines 97-117)
pers_predict_latest(inst, table) ==
    IF table.n = 0 THEN [raised |-> "ValueError: empty"]
    ELSE IF TARGET_COLUMN \notin Range(table.columns) THEN [raised |-> "KeyError"]
    ELSE [raised |-> "", kind |-> "latest",
          value |-> [h \in Range(HORIZONS) |-> TargetValues(table)[table.n]]]


\* ---- the calls, as actions on the instances and the file system ----

\* Record of a call: what was called, on which instance, with which arguments,
\* and what came back
Call(op, inst, table, path, result) ==
    [op |-> op, inst |-> inst, table |-> table, path |-> path, result |-> result,
     after_save |-> None, was_fresh |-> FALSE, found |-> None]

Raised(kind) == [raised |-> kind]

Returned == [raised |-> ""]

\* Outcome of keras training (lstm_model.py line 226) on n_train training and
\* n_val validation sequences: raises on an empty training set; with an empty
\* validation set either outcome is possible
TrainingOutcomes(n_train, n_val) ==
    IF n_train = 0 THEN {"raises"}
    ELSE IF n_val = 0 THEN {"raises", "completes"}
    ELSE {"completes"}

\* LSTMForecaster() (lines 45-66): the variable is bound to a newly constructed
\* instance, as test_smoke_train.py line 144 does before load
LstmNew(i) ==
    /\ lstm[i] /= FreshLSTM
    /\ lstm' = [lstm EXCEPT ![i] = FreshLSTM]
    /\ fc_done' = fc_done \ {i}
    /\ fc_last' = Call("new", i, None, None, Returned)
    /\ UNCHANGED <<pers, fs_models, fs_scalers, fc_saved, fc_calls>>

\* LSTMForecaster.fit (lines 146-237)
LstmFit(i, fi) ==
    LET cols    == get_feature_columns(fi.train)
        mean    == [stat |-> "mean", of |-> fi, cols |-> cols]
        std     == [stat |-> "std", of |-> fi, cols |-> cols]
        split   == SplitIdx(fi.train.n)
        n_train == IF IsSome(fi.val) THEN NSamples(fi.train.n) ELSE NSamples(split)
        n_val   == IF IsSome(fi.val) THEN NSamples(Get(fi.val).n)
                                     ELSE NSamples(fi.train.n - split)
        scaled  == [lstm[i] EXCEPT !.feature_cols = Some(cols),
                                   !.scaler_mean = Some(mean),
                                   !.scaler_std = Some(std)]
        weights(trained) == [cols |-> cols, of |-> fi, trained |-> trained]
    IN  /\ fc_calls < MaxCalls
        /\ fc_calls' = fc_calls + 1
        /\ fc_saved' = None
        /\ UNCHANGED <<pers, fs_models, fs_scalers>>
        /\ IF IsSome(fi.val) /\ ~HasColumns(Get(fi.val), cols)
           THEN \* line 187: val_df[self.feature_cols], after lines 166-178
                /\ lstm' = [lstm EXCEPT ![i] = scaled]
                /\ fc_last' = Call("fit", i, None, None, Raised("KeyError"))
                /\ UNCHANGED fc_done
           ELSE IF TARGET_COLUMN \notin Range(fi.train.columns)
           THEN \* line 126, reached from line 198
                /\ lstm' = [lstm EXCEPT ![i] = scaled]
                /\ fc_last' = Call("fit", i, None, None, Raised("KeyError"))
                /\ UNCHANGED fc_done
           ELSE IF n_train < 0 \/ n_val < 0
           THEN \* line 132, reached from lines 198-199
                /\ lstm' = [lstm EXCEPT ![i] = scaled]
                /\ fc_last' = Call("fit", i, None, None, Raised("ValueError: negative dimensions"))
                /\ UNCHANGED fc_done
           ELSE \E outcome \in TrainingOutcomes(n_train, n_val) :
                IF outcome = "raises"
                THEN \* line 204 has replaced self.model; line 226 raises
                     /\ lstm' = [lstm EXCEPT ![i] = [scaled EXCEPT !.model = Some(weights(FALSE))]]
                     /\ fc_last' = Call("fit", i, None, None, Raised("ValueError: empty data"))
                     /\ UNCHANGED fc_done
                ELSE /\ lstm' = [lstm EXCEPT ![i] = [scaled EXCEPT !.model = Some(weights(TRUE))]]
                     /\ fc_last' = Call("fit", i, None, None, Returned)
                     /\ fc_done' = fc_done \cup {i}

\* LSTMForecaster.predict (lines 239-274)
LstmPredict(i, table) ==
    /\ fc_calls < MaxCalls
    /\ fc_calls' = fc_calls + 1
    /\ fc_last' = Call("predict", i, Some(table), None, lstm_predict(lstm[i], table))
    /\ fc_saved' = None
    /\ UNCHANGED <<lstm, pers, fs_models, fs_scalers, fc_done>>

\* LSTMForecaster.predict_latest (lines 276-300)
LstmPredictLatest(i, table) ==
    /\ fc_calls < MaxCalls
    /\ fc_calls' = fc_calls + 1
    /\ fc_last' = Call("predict_latest", i, Some(table), None, lstm_predict_latest(lstm[i], table))
    /\ fc_saved' = None
    /\ UNCHANGED <<lstm, pers, fs_models, fs_scalers, fc_done>>

\* lstm_model.py lines 312-315: a .h5 path is saved as .keras
SavePath(path) == IF path.suffix = ".h5" THEN [path EXCEPT !.suffix = ".keras"] ELSE path

\* lstm_model.py lines 323 and 361: scaler.npz lives in the model file's directory
ScalerDir(path) == path.dir

ScalerBundle_MeanOnly(me) ==
    [mean |-> Get(me.scaler_mean), std |-> Get(me.scaler_mean),
     feature_cols |-> Get(me.feature_cols)]

\* lstm_model.py lines 324-329: the content of scaler.npz
ScalerBundle(me) ==
    [mean |-> Get(me.scaler_mean), std |-> Get(me.scaler_std),
     feature_cols |-> Get(me.feature_cols)]

\* LSTMForecaster.save (lines 302-331)
LstmSave(i, path) ==
    LET me == lstm[i]
        save_path == SavePath(path)
    IN  /\ fc_calls < MaxCalls
        /\ fc_calls' = fc_calls + 1
        /\ UNCHANGED <<lstm, pers, fc_done>>
        /\ IF me.model = None
           THEN /\ fc_last' = Call("save", i, None, Some(path), Raised("RuntimeError: no model"))
                /\ fc_saved' = None
                /\ UNCHANGED <<fs_models, fs_scalers>>
           ELSE /\ fs_models' = [fs_models EXCEPT ![save_path] = me.model]
                /\ IF me.scaler_mean = None
                   THEN \* line 326: None has no .values
                        /\ fc_last' = Call("save", i, None, Some(path), Raised("AttributeError"))
                        /\ fc_saved' = None
                        /\ UNCHANGED fs_scalers
                   ELSE /\ fs_scalers' = [fs_scalers EXCEPT ![ScalerDir(save_path)] =
                                            Some(ScalerBundle(me))]
                        /\ fc_last' = Call("save", i, None, Some(path), Returned)
                        /\ fc_saved' = Some([path |-> path, inst |-> me])

\* lstm_model.py lines 343-355: the file to load, or None when there is none
LoadPath(path) ==
    IF IsSome(fs_models[path]) THEN Some(path)
    ELSE IF path.suffix = ".h5" /\ IsSome(fs_models[[path EXCEPT !.suffix = ".keras"]])
    THEN Some([path EXCEPT !.suffix = ".keras"])
    ELSE None

\* What a load call found on disk, and whether the instance was newly constructed
LoadCall(i, path, result) ==
    [Call("load", i, None, Some(path), result)
        EXCEPT !.after_save = fc_saved,
               !.was_fresh = (lstm[i] = FreshLSTM),
               !.found = Some([model  |-> LoadPath(path) /= None,
                               scaler |-> LoadPath(path) /= None
                                            /\ fs_scalers[ScalerDir(Get(LoadPath(path)))] /= None])]

\* lstm_model.py lines 357-369 when scaler.npz does not exist: the model is
\* installed, the scaler fields are left as they were, and load returns
ScalerMissing(i, path, load_path) ==
    /\ lstm' = [lstm EXCEPT ![i].model = fs_models[load_path]]
    /\ fc_done' = fc_done \cup {i}
    /\ fc_last' = LoadCall(i, path, Returned)

\* LSTMForecaster.load (lines 333-369)
LstmLoad(i, path) ==
    LET load_path == LoadPath(path)
    IN  /\ fc_calls < MaxCalls
        /\ fc_calls' = fc_calls + 1
        /\ fc_saved' = None
        /\ UNCHANGED <<pers, fs_models, fs_scalers>>
        /\ IF load_path = None
           THEN /\ fc_last' = LoadCall(i, path, Raised("FileNotFoundError: model"))
                /\ UNCHANGED <<lstm, fc_done>>
           ELSE LET scaler == fs_scalers[ScalerDir(Get(load_path))]
                IN  IF IsSome(scaler)
                    THEN /\ lstm' = [lstm EXCEPT ![i] =
                                       [model        |-> fs_models[Get(load_path)],
                                        feature_cols |-> Some(Get(scaler).feature_cols),
                                        scaler_mean  |-> Some(Get(scaler).mean),
                                        scaler_std   |-> Some(Get(scaler).std)]]
                         /\ fc_done' = fc_done \cup {i}
                         /\ fc_last' = LoadCall(i, path, Returned)
                    ELSE ScalerMissing(i, path, Get(load_path))

\* PersistenceModel.fit (lines 37-55)
PersFit(fi) ==
    /\ fc_calls < MaxCalls
    /\ fc_calls' = fc_calls + 1
    /\ fc_saved' = None
    /\ UNCHANGED <<lstm, fs_models, fs_scalers>>
    /\ IF TARGET_COLUMN \notin Range(fi.train.columns)
       THEN /\ fc_last' = Call("fit", "p", None, None, Raised("ValueError: no target"))
            /\ UNCHANGED <<pers, fc_done>>
       ELSE /\ pers' = [pers EXCEPT !.is_fitted = TRUE]
            /\ fc_done' = fc_done \cup {"p"}
            /\ fc_last' = Call("fit", "p", None, None, Returned)

\* PersistenceModel.predict (lines 57-78)
PersPredict(table) ==
    /\ fc_calls < MaxCalls
    /\ fc_calls' = fc_calls + 1
    /\ fc_last' = Call("predict", "p", Some(table), None, pers_predict(pers, table))
    /\ fc_saved' = None
    /\ UNCHANGED <<lstm, pers, fs_models, fs_scalers, fc_done>>

\* PersistenceModel.predict_all_horizons (lines 80-95)
PersPredictAllHorizons(table) ==
    /\ fc_calls < MaxCalls
    /\ fc_calls' = fc_calls + 1
    /\ fc_last' = Call("predict_all_horizons", "p", Some(table), None,
                       pers_predict_all_horizons(pers, table))
    /\ fc_saved' = None
    /\ UNCHANGED <<lstm, pers, fs_models, fs_scalers, fc_done>>

\* PersistenceModel.predict_latest (lines 97-117)
PersPredictLatest(table) ==
    /\ fc_calls < MaxCalls
    /\ fc_calls' = fc_calls + 1
    /\ fc_last' = Call("predict_latest", "p", Some(table), None, pers_predict_latest(pers, table))
    /\ fc_saved' = None
    /\ UNCHANGED <<lstm, pers, fs_models, fs_scalers, fc_done>>

\* PersistenceModel.save (lines 119-126): nothing is written
PersSave(path) ==
    /\ fc_calls < MaxCalls
    /\ fc_calls' = fc_calls + 1
    /\ fc_last' = Call("save", "p", None, Some(path), Returned)
    /\ fc_saved' = None
    /\ UNCHANGED <<lstm, pers, fs_models, fs_scalers, fc_done>>

\* PersistenceModel.load (lines 128-140)
PersLoad(path) ==
    /\ fc_calls < MaxCalls
    /\ fc_calls' = fc_calls + 1
    /\ pers' = [pers EXCEPT !.is_fitted = TRUE]
    /\ fc_done' = fc_done \cup {"p"}
    /\ fc_last' = Call("load", "p", None, Some(path), Returned)
    /\ fc_saved' = None
    /\ UNCHANGED <<lstm, fs_models, fs_scalers>>

\* The environment: a model bundle deployed or left without its scaler.npz
\* (the case lstm_model.py line 362 and debug_bot.py line 50 test for)
RemoveScaler(d) ==
    /\ IsSome(fs_scalers[d])
    /\ fs_scalers' = [fs_scalers EXCEPT ![d] = None]
    /\ fc_saved' = None
    /\ UNCHANGED <<lstm, pers, fs_models, fc_done, fc_last, fc_calls>>

NoCall == Call("none", "none", None, None, Returned)

FcInit ==
    /\ lstm = [i \in Insts |-> FreshLSTM]
    /\ pers = FreshPersistence
    /\ fs_models = [p \in ModelPaths |-> None]
    /\ fs_scalers = [d \in Dirs |-> None]
    /\ fc_done = {}
    /\ fc_last = NoCall
    /\ fc_saved = None
    /\ fc_calls = 0

DpIdle == dp_args = None /\ dp_file = None /\ dp_result = None

BfIdle == bf_raw = None /\ bf_gap = 0 /\ bf_out = None

UxIdle ==
    /\ q_out = None /\ bt_out = None /\ sc_out = None
    /\ th_heap = None /\ fc_hist = None /\ pr_threads = None

InitForecast == FcInit /\ DpIdle /\ BfIdle /\ UxIdle

NextForecast ==
    /\ UNCHANGED <<dp_vars, bf_vars, ux_vars>>
    /\ \/ \E fi \in FitInputs : PersFit(fi)
       \/ \E t \in PredictTables : PersPredict(t)
       \/ \E t \in PredictTables : PersPredictAllHorizons(t)
       \/ \E t \in PredictTables : PersPredictLatest(t)
       \/ \E p \in ModelPaths : PersSave(p)
       \/ \E p \in ModelPaths : PersLoad(p)
       \/ \E i \in Insts : LstmNew(i)
       \/ \E i \in Insts, fi \in FitInputs : LstmFit(i, fi)
       \/ \E i \in Insts, t \in PredictTables : LstmPredict(i, t)
       \/ \E i \in Insts, t \in PredictTables : LstmPredictLatest(i, t)
       \/ \E i \in Insts, p \in ModelPaths : LstmSave(i, p)
       \/ \E i \in Insts, p \in ModelPaths : LstmLoad(i, p)
       \/ \E d \in Dirs : RemoveScaler(d)

SpecForecast == InitForecast /\ [][NextForecast]_vars


(***************************************************************************)
(* Feature builder: src/data/preprocess.py                                 *)
(*                                                                         *)
(* A cell is None (NaN) or Some(v), v an integer in fixed-point units.  A  *)
(* raw table is [datetime_index, columns, obs], obs a sequence of          *)
(* [hour, cells]; an hourly table is [columns, start, rows], rows a        *)
(* sequence of functions from column name to cell, row k being the hour    *)
(* start + k - 1.                                                          *)
(***************************************************************************)

\* ---- bounds of the feature-builder inputs ----
MaxHours == 6           \* span of the raw observation table, in hours

MaxLag == 3             \* lags of config.LAG_HOURS up to this are modelled

MaxGapArg == 3          \* largest max_gap_hours argument tried for fill_small_gaps

MaxMalformedHours == 3  \* span of the raw tables that break the input schema

\* config.LAG_HOURS, restricted to the bound
LAG_HOURS == SelectSeq(<<1, 2, 3, 6, 12, 24>>, LAMBDA l : l <= MaxLag)

\* config.MAX_GAP_FILL_HOURS
MAX_GAP_FILL_HOURS == 3

\* config.PRESSURE_TENDENCY_HOURS
PRESSURE_TENDENCY_HOURS == 3

RECURSIVE SeqSum(_)
SeqSum(s) == IF s = <<>> THEN 0 ELSE s[1] + SeqSum(Tail(s))

RECURSIVE SetMin(_)
SetMin(S) == LET x == CHOOSE x \in S : TRUE
             IN  IF S = {x} THEN x ELSE Min(x, SetMin(S \ {x}))

RECURSIVE SetMax(_)
SetMax(S) == LET x == CHOOSE x \in S : TRUE
             IN  IF S = {x} THEN x ELSE Max(x, SetMax(S \ {x}))

\* The non-missing values of column c among the observations of hour h
BucketValues(raw, c, h) ==
    LET inHour == SelectSeq(raw.obs, LAMBDA o : o.hour = h /\ IsSome(o.cells[c]))
    IN  [k \in 1..Len(inHour) |-> Get(inHour[k].cells[c])]

\* .mean() of one bucket: NaN when the bucket has no value
BucketMean(vals) == IF vals = <<>> THEN None ELSE Some(SeqSum(vals) \div Len(vals))

\* resample_to_hourly (lines 28-48): df.resample("1H").mean()
resample_to_hourly(raw) ==
    IF ~raw.datetime_index THEN [raised |-> "ValueError: DatetimeIndex"]
    ELSE IF raw.obs = <<>>
    THEN [raised |-> "", columns |-> raw.columns, start |-> 0, rows |-> <<>>]
    ELSE LET hours == {raw.obs[k].hour : k \in DOMAIN raw.obs}
             lo    == SetMin(hours)
             hi    == SetMax(hours)
         IN  [raised  |-> "",
              columns |-> raw.columns,
              start   |-> lo,
              rows    |-> [k \in 1..(hi - lo + 1) |->
                             [c \in raw.columns |-> BucketMean(BucketValues(raw, c, lo + k - 1))]]]

\* Linear interpolation between a (at distance j before) and b, k steps apart
Interp(a, b, j, k) == a + ((b - a) * j) \div k

\* Series.interpolate(method="linear", limit=limit, limit_area="inside") at
\* position i: a NaN is filled when it has a valid value on both sides and is
\* among the first `limit` NaNs after the last valid value
FillCell(col, i, limit) ==
    IF IsSome(col[i]) THEN col[i]
    ELSE LET before == {p \in 1..(i - 1) : IsSome(col[p])}
             after  == {q \in (i + 1)..Len(col) : IsSome(col[q])}
         IN  IF before = {} \/ after = {} THEN None
             ELSE LET p == SetMax(before)
                      q == SetMin(after)
                  IN  IF i - p <= limit
                      THEN Some(Interp(Get(col[p]), Get(col[q]), i - p, q - p))
                      ELSE None

\* One column of an hourly table as a sequence of cells
Column(df, c) == [k \in 1..Len(df.rows) |-> df.rows[k][c]]

\* fill_small_gaps (lines 51-74)
fill_small_gaps(df, max_gap_hours) ==
    [df EXCEPT !.rows = [k \in 1..Len(df.rows) |->
                            [c \in df.columns |-> FillCell(Column(df, c), k, max_gap_hours)]]]

Shift_Next(col, lag) == [t \in 1..Len(col) |-> IF t - lag >= 0 /\ t - lag + 1 <= Len(col) THEN col[t - lag + 1] ELSE <<>>]

\* Series.shift(lag): row t takes the value of row t - lag
Shift(col, lag) == [t \in 1..Len(col) |-> IF t - lag >= 1 THEN col[t - lag] ELSE None]

\* f"{column}_lag_{lag}h"
LagName(column, lag) == column \o "_lag_" \o ToString(lag) \o "h"

\* create_lag_features (lines 77-93)
create_lag_features(df, column, lags) ==
    LET new  == {LagName(column, lags[k]) : k \in DOMAIN lags}
        base == Column(df, column)
        lagOf(c) == CHOOSE l \in Range(lags) : LagName(column, l) = c
    IN  [df EXCEPT !.columns = df.columns \cup new,
                   !.rows = [t \in 1..Len(df.rows) |->
                               [c \in df.columns \cup new |->
                                  IF c \in new THEN Shift(base, lagOf(c))[t]
                                  ELSE df.rows[t][c]]]]

\* Adds the columns cols, whose cell at row t is val(t), to df
WithColumns(df, cols, val(_, _)) ==
    [df EXCEPT !.columns = df.columns \cup cols,
               !.rows = [t \in 1..Len(df.rows) |->
                           [c \in df.columns \cup cols |->
                              IF c \in cols THEN val(c, t) ELSE df.rows[t][c]]]]

\* create_cyclical_features (lines 96-123): never missing; the values are kept
\* symbolic (which angle the sine or cosine is taken of)
create_cyclical_features(df) ==
    WithColumns(df, {"hour_sin", "hour_cos", "dow_sin", "dow_cos", "doy_sin", "doy_cos"},
                LAMBDA c, t : Some([encoding |-> c, hour |-> df.start + t - 1]))

\* create_pressure_tendency (lines 126-147): diff(hours) / hours
create_pressure_tendency(df, hours) ==
    IF "pressure" \in df.columns
    THEN WithColumns(df, {"pressure_tendency"},
                     LAMBDA c, t :
                        IF t - hours >= 1 /\ IsSome(df.rows[t]["pressure"])
                                          /\ IsSome(df.rows[t - hours]["pressure"])
                        THEN Some((Get(df.rows[t]["pressure"])
                                     - Get(df.rows[t - hours]["pressure"])) \div hours)
                        ELSE None)
    ELSE df

\* create_wind_direction_components (lines 150-176); the values are kept symbolic
create_wind_direction_components(df) ==
    IF "wind_dir_deg" \in df.columns
    THEN WithColumns(df, {"wind_u", "wind_v"},
                     LAMBDA c, t :
                        IF IsSome(df.rows[t][TARGET_COLUMN]) /\ IsSome(df.rows[t]["wind_dir_deg"])
                        THEN Some([component |-> c, speed |-> Get(df.rows[t][TARGET_COLUMN]),
                                   dir |-> Get(df.rows[t]["wind_dir_deg"])])
                        ELSE None)
    ELSE df


\* [col for col in df.columns if "_lag_" in col] (line 229): the names with
\* "_lag_" in them are the ones create_lag_features made
LagColumns(df) ==
    {c \in df.columns : \E base \in df.columns, l \in Range(LAG_HOURS) : c = LagName(base, l)}

DropNa_TargetOnly(rows, subset) ==
    SelectSeq(rows, LAMBDA r : TARGET_COLUMN \notin subset \/ IsSome(r.cells[TARGET_COLUMN]))

\* DataFrame.dropna(subset=...): keeps, in order, the rows with no NaN in subset
DropNa(rows, subset) == SelectSeq(rows, LAMBDA r : \A c \in subset : IsSome(r.cells[c]))

\* ---- DataFrame objects ----
\* A run of the pipeline is followed through its DataFrame objects: object 1 is
\* the caller's table, `ref` the object `df` is bound to, `n` the number of
\* objects made so far and `caller` the content of object 1.

NewFrame_InPlace(s, table) ==
    [ref |-> s.ref, n |-> s.n, caller |-> IF s.ref = 1 THEN table ELSE s.caller]

\* df = <an operation that returns a new DataFrame holding `table`>: df.copy()
\* (line 199), resample().mean() (line 45), interpolate() (line 68), dropna()
\* (lines 226, 230)
NewFrame(s, table) == [ref |-> s.n + 1, n |-> s.n + 1, caller |-> s.caller]

\* df[name] = ... inside a helper (lines 90, 110-121, 141, 169-170): the object
\* `df` is bound to is changed in place and then holds `table`
InPlace(s, table) ==
    [ref |-> s.ref, n |-> s.n, caller |-> IF s.ref = 1 THEN table ELSE s.caller]

\* One run of build_features (lines 179-238) on the caller's table: the value it
\* returns or the error it raises, [raised, columns, rows] with rows a sequence
\* of [hour, cells], and the caller's table as the run leaves it
build_features_run(raw) ==
    LET s1     == NewFrame([ref |-> 1, n |-> 1, caller |-> raw], raw)
        hourly == resample_to_hourly(raw)
    IN  IF hourly.raised /= ""
        THEN [result |-> [raised |-> hourly.raised], caller |-> s1.caller]
        ELSE LET filled == fill_small_gaps(hourly, MAX_GAP_FILL_HOURS)
                 s3     == NewFrame(NewFrame(s1, hourly), filled)
             IN  IF TARGET_COLUMN \notin filled.columns
                 THEN [result |-> [raised |-> "KeyError"], caller |-> s3.caller]
                 ELSE LET lagged   == create_lag_features(filled, TARGET_COLUMN, LAG_HOURS)
                          gusts    == IF "wind_gust_m_s" \in lagged.columns
                                      THEN create_lag_features(lagged, "wind_gust_m_s",
                                                   SubSeq(LAG_HOURS, 1, Min(3, Len(LAG_HOURS))))
                                      ELSE lagged
                          cyclical == create_cyclical_features(gusts)
                          tendency == create_pressure_tendency(cyclical, PRESSURE_TENDENCY_HOURS)
                          full     == create_wind_direction_components(tendency)
                          s8       == InPlace(InPlace(InPlace(InPlace(InPlace(s3,
                                          lagged), gusts), cyclical), tendency), full)
                          indexed  == [t \in 1..Len(full.rows) |->
                                         [hour |-> full.start + t - 1, cells |-> full.rows[t]]]
                          hasWind  == DropNa(indexed, {TARGET_COLUMN})
                          pruned   == DropNa(hasWind, LagColumns(full))
                          s9       == NewFrame(NewFrame(s8, hasWind), pruned)
                      IN  [result |-> [raised |-> "", columns |-> full.columns, rows |-> pruned],
                           caller |-> s9.caller]

\* build_features (lines 179-238): what the call returns
build_features(raw) == build_features_run(raw).result

\* ---- the raw observation tables tried ----

\* Raw values: wind and gust of hour h, in fixed-point units
WindAt(h) == 420 * h * h

GustAt(h) == 420 * (h * h + h)

PressureAt(h) == 420 * (1000 + 3 * h * h)

\* What the collector recorded in one hour: nothing, a reading without wind,
\* or readings with wind (two of them in odd hours, one in even hours)
HourKinds == {"none", "nan", "obs"}

\* Column layouts: wind only, or wind with one more column that is missing in
\* at most one hour (hour 0 = never missing): gust in any hour, pressure in
\* the last hour
ColumnLayouts(n) ==
    {[extra |-> None, missing_at |-> 0]}
        \cup [extra : {Some("wind_gust_m_s")}, missing_at : 0..n]
        \cup [extra : {Some("pressure")}, missing_at : {0, n}]

ExtraValue(c, h) == IF c = "pressure" THEN PressureAt(h) ELSE GustAt(h)

\* The observations of hour h
ObsOfHour(kind, layout, h) ==
    LET cols == {TARGET_COLUMN} \cup Range(layout.extra)
        cell(c, w) == IF c = TARGET_COLUMN
                      THEN (IF kind = "nan" THEN None ELSE Some(w))
                      ELSE (IF layout.missing_at = h THEN None ELSE Some(ExtraValue(c, h)))
        one(w) == [hour |-> h, cells |-> [c \in cols |-> cell(c, w)]]
    IN  IF kind = "none" THEN <<>>
        ELSE IF kind = "obs" /\ h % 2 = 1 THEN <<one(WindAt(h) - 420), one(WindAt(h) + 420)>>
        ELSE <<one(WindAt(h))>>

RECURSIVE ObsOfHours(_, _, _)
ObsOfHours(kinds, layout, h) ==
    IF h > Len(kinds) THEN <<>>
    ELSE ObsOfHour(kinds[h], layout, h) \o ObsOfHours(kinds, layout, h + 1)

MakeRaw(kinds, layout) ==
    [datetime_index |-> TRUE,
     columns        |-> {TARGET_COLUMN} \cup Range(layout.extra),
     obs            |-> ObsOfHours(kinds, layout, 1)]

WellFormedTables ==
    UNION { { MakeRaw(kinds, layout) :
                kinds \in {k \in [1..n -> HourKinds] : k[1] /= "none" /\ k[n] /= "none"},
                layout \in ColumnLayouts(n) } : n \in 1..MaxHours }

Reverse(s) == [k \in 1..Len(s) |-> s[Len(s) + 1 - k]]

\* Whether the index of a raw table is in time order
IsTimeOrdered(raw) ==
    \A j, k \in DOMAIN raw.obs : j < k => raw.obs[j].hour <= raw.obs[k].hour

\* Tables that break the input schema: an index that is not a DatetimeIndex, an
\* index out of time order, or no target column
MalformedTables ==
    LET small == { MakeRaw(kinds, [extra |-> None, missing_at |-> 0]) :
                     kinds \in UNION { {k \in [1..n -> HourKinds] : k[1] = "obs" /\ k[n] = "obs"} :
                                         n \in 2..MaxMalformedHours } }
    IN  { [t EXCEPT !.datetime_index = FALSE] : t \in small }
          \cup { [t EXCEPT !.obs = Reverse(t.obs)] : t \in small }
          \cup { [datetime_index |-> TRUE,
                  columns        |-> {"pressure"},
                  obs            |-> [k \in 1..Len(t.obs) |->
                                        [hour  |-> t.obs[k].hour,
                                         cells |-> [c \in {"pressure"} |->
                                                      Some(PressureAt(t.obs[k].hour))]]]] :
                 t \in small }

RawTables == WellFormedTables \cup MalformedTables

\* ---- the calls ----

\* fill_small_gaps called on the hourly table of the raw observations
FillSmallGaps(max_gap_hours) ==
    /\ bf_out = None
    /\ resample_to_hourly(bf_raw).raised = ""
    /\ bf_gap' = max_gap_hours
    /\ bf_out' = Some([op |-> "fill_small_gaps",
                       input |-> resample_to_hourly(bf_raw),
                       result |-> fill_small_gaps(resample_to_hourly(bf_raw), max_gap_hours)])
    /\ UNCHANGED bf_raw

\* The hourly, gap-filled table build_features derives its rows from (lines 202-205)
HourlyInput(raw) ==
    IF resample_to_hourly(raw).raised /= "" THEN resample_to_hourly(raw)
    ELSE fill_small_gaps(resample_to_hourly(raw), MAX_GAP_FILL_HOURS)

\* build_features called on the caller's table of raw observations, once or a
\* second time on the same table object; `prev` is what the first call returned
BuildFeatures ==
    /\ \/ bf_out = None
       \/ bf_out /= None /\ bf_out[1].op = "build_features" /\ bf_out[1].prev = None
    /\ LET run == build_features_run(bf_raw)
       IN  /\ bf_out' = Some([op |-> "build_features",
                              input |-> HourlyInput(bf_raw),
                              result |-> run.result,
                              caller_before |-> bf_raw,
                              prev |-> IF bf_out = None THEN None ELSE Some(bf_out[1].result)])
           /\ bf_raw' = run.caller
    /\ UNCHANGED bf_gap

FcIdle == FcInit

InitFeatures ==
    /\ bf_raw \in RawTables
    /\ bf_gap = 0
    /\ bf_out = None
    /\ DpIdle
    /\ FcIdle
    /\ UxIdle

NextFeatures ==
    /\ UNCHANGED <<dp_vars, fc_vars, ux_vars>>
    /\ \/ \E g \in 1..MaxGapArg : FillSmallGaps(g)
       \/ BuildFeatures

SpecFeatures == InitFeatures /\ [][NextFeatures]_vars


(***************************************************************************)
(* Specification of the decision engine: one decide_play call on inputs    *)
(* drawn from the bounded sets above                                       *)
(***************************************************************************)

\* median_forecast dictionaries: keys in insertion order, each with a value
MedianForecasts ==
    {m \in SeqsUpTo([key : HorizonKeys, value : MedianWinds], MaxKeys) :
        Injective([k \in DOMAIN m |-> m[k].key])}

KeysOf(median) == {median[k].key : k \in DOMAIN median}

\* prob_over_threshold: None, or probabilities for some of the keys
ProbChoices(keys) ==
    {None} \cup {Some(f) : f \in UNION {[K -> Probs] : K \in SUBSET keys}}

DecisionArgs ==
    UNION { [median_forecast     : {m},
             q90_forecast        : [KeysOf(m) -> Q90Winds],
             thresholds          : {None} \cup {Some(t) : t \in ThresholdChoices},
             prob_over_threshold : ProbChoices(KeysOf(m))] : m \in MedianForecasts }

DecidePlay ==
    /\ dp_result = None
    /\ dp_result' = Some(decide_play(Get(dp_args).median_forecast, Get(dp_args).q90_forecast,
                                     Get(dp_args).thresholds, Get(dp_args).prob_over_threshold,
                                     dp_file))
    /\ UNCHANGED <<dp_args, dp_file>>

InitDecision ==
    /\ dp_args \in {Some(a) : a \in DecisionArgs}
    /\ dp_file \in {None, Some(CustomThresholds)}
    /\ (IsSome(Get(dp_args).thresholds) => dp_file = None)
    /\ dp_result = None
    /\ FcIdle
    /\ BfIdle
    /\ UxIdle

NextDecision ==
    /\ UNCHANGED <<fc_vars, bf_vars, ux_vars>>
    /\ DecidePlay

SpecDecision == InitDecision /\ [][NextDecision]_vars


(***************************************************************************)
(* Properties of the decision engine (checked under SpecDecision)          *)
(***************************************************************************)

\* The thresholds a call is judged by: the argument, or what is loaded
EffectivePlay(args) ==
    IF IsSome(args.thresholds) THEN Get(args.thresholds)
    ELSE IF IsSome(dp_file) THEN Get(dp_file) ELSE DEFAULT_THRESHOLDS

\* The probability limit of a configuration (1.0 when it names none)
ProbLimit(play) ==
    IF play.prob_over_3m_s_max = None THEN 1000 ELSE play.prob_over_3m_s_max[1]

\* Whether the k-th horizon of the arguments is within every limit
WithinLimits(args, k) ==
    LET key  == args.median_forecast[k].key
        play == EffectivePlay(args)
    IN  /\ args.median_forecast[k].value <= play.median_max_m_s
        /\ args.q90_forecast[key] <= play.q90_max_m_s
        /\ (args.prob_over_threshold /= None /\ key \in DOMAIN args.prob_over_threshold[1]
               => args.prob_over_threshold[1][key] <= ProbLimit(play))

\* The arguments with one value of the k-th horizon pushed over its limit
PushedOver(args, k, which) ==
    LET key  == args.median_forecast[k].key
        play == EffectivePlay(args)
    IN  IF which = "median"
        THEN [args EXCEPT !.median_forecast[k].value = play.median_max_m_s + 1]
        ELSE IF which = "q90"
        THEN [args EXCEPT !.q90_forecast[key] = play.q90_max_m_s + 1]
        ELSE [args EXCEPT !.prob_over_threshold =
                Some([x \in {key} \cup (IF args.prob_over_threshold = None THEN {}
                                        ELSE DOMAIN args.prob_over_threshold[1]) |->
                        IF x = key THEN ProbLimit(play) + 1
                        ELSE args.prob_over_threshold[1][x]])]

DecisionOf(args) ==
    decide_play(args.median_forecast, args.q90_forecast, args.thresholds,
                args.prob_over_threshold, dp_file).decision

\* C1: decide_play returns PLAY exactly when every horizon has median <= median_max,
\* q90 <= q90_max and (where a probability is supplied) prob <= the probability
\* limit, a value equal to its limit passing; otherwise it returns DON'T PLAY, and
\* pushing any single value of any horizon over its limit turns PLAY into DON'T PLAY.
C1_PlayIffAllWithinLimits ==
    dp_result /= None =>
        LET args == dp_args[1]
            res  == dp_result[1]
            allOk == \A k \in DOMAIN args.median_forecast : WithinLimits(args, k)
        IN  /\ res.raised = ""
            /\ res.decision = (IF allOk THEN "PLAY" ELSE "DON'T PLAY")
            /\ res.decision = "PLAY" =>
                  \A k \in DOMAIN args.median_forecast, which \in {"median", "q90", "prob"} :
                      DecisionOf(PushedOver(args, k, which)) = "DON'T PLAY"

\* C1 witness: a PLAY over two horizons, one with a median exactly at its limit
\* and a supplied probability exactly at its limit
C1_Witness ==
    /\ dp_result /= None
    /\ dp_result[1].decision = "PLAY"
    /\ Len(dp_args[1].median_forecast) = 2
    /\ \E k \in DOMAIN dp_args[1].median_forecast :
          LET key == dp_args[1].median_forecast[k].key
          IN  /\ dp_args[1].median_forecast[k].value = EffectivePlay(dp_args[1]).median_max_m_s
              /\ dp_args[1].q90_forecast[key] = EffectivePlay(dp_args[1]).q90_max_m_s
              /\ dp_args[1].prob_over_threshold /= None
              /\ key \in DOMAIN dp_args[1].prob_over_threshold[1]
              /\ dp_args[1].prob_over_threshold[1][key] = ProbLimit(EffectivePlay(dp_args[1]))

\* The k-th key is the only key of median_forecast that names its horizon
NamesItsHorizonAlone(args, k) ==
    \A j \in DOMAIN args.median_forecast :
        j /= k => args.median_forecast[j].key.horizon /= args.median_forecast[k].key.horizon

\* C2: in every decision record, for each horizon the violations list contains
\* median_too_high iff median > median_max, q90_too_high iff q90 > q90_max and
\* prob_too_high iff a probability was supplied for the horizon and exceeds the
\* limit; passes is true iff the list is empty.  (Checked for each horizon that a
\* single key of median_forecast names.)
C2_ViolationsMatchLimits ==
    (dp_result /= None /\ dp_result[1].raised = "") =>
        LET args == dp_args[1]
            res  == dp_result[1]
            play == EffectivePlay(args)
        IN  /\ \A h \in DOMAIN res.details :
                  res.details[h].passes <=> (res.details[h].violations = <<>>)
            /\ \A k \in DOMAIN args.median_forecast :
                  NamesItsHorizonAlone(args, k) =>
                      LET key   == args.median_forecast[k].key
                          entry == res.details[key.horizon]
                          marks == {entry.violations[x] : x \in DOMAIN entry.violations}
                          prob  == args.prob_over_threshold
                      IN  /\ ("median_too_high" \in marks) <=>
                                 (args.median_forecast[k].value > play.median_max_m_s)
                          /\ ("q90_too_high" \in marks) <=>
                                 (args.q90_forecast[key] > play.q90_max_m_s)
                          /\ ("prob_too_high" \in marks) <=>
                                 (prob /= None /\ key \in DOMAIN prob[1]
                                               /\ prob[1][key] > ProbLimit(play))
                          /\ marks \subseteq {"median_too_high", "q90_too_high", "prob_too_high"}

\* C2 witness: two horizons, 1h within its limits and unmarked, 3h marked with
\* q90_too_high and prob_too_high at once
C2_Witness ==
    /\ dp_result /= None
    /\ dp_result[1].raised = ""
    /\ DOMAIN dp_result[1].details = {"1h", "3h"}
    /\ dp_result[1].details["1h"].passes
    /\ dp_result[1].details["1h"].violations = <<>>
    /\ dp_result[1].details["3h"].violations = <<"q90_too_high", "prob_too_high">>
    /\ ~dp_result[1].details["3h"].passes


(***************************************************************************)
(* Properties of the forecasters (checked under SpecForecast)              *)
(***************************************************************************)

IsPredictCall == fc_last.op \in {"predict", "predict_latest"}

\* C3: for both forecasters, predict or predict_latest on an instance on which
\* neither fit nor load has completed raises the not-fitted error and returns no
\* forecast.
\* (Any exception is accepted here as the refusal; what the property forbids is a
\* forecast coming back.)
C3_PredictNeedsFitOrLoad ==
    (IsPredictCall /\ fc_last.inst \notin fc_done) => fc_last.result.raised /= ""

\* C4: after fit, predict(features) of either forecaster returns a mapping with
\* exactly one entry per configured horizon, each entry an array of predictions.
C4_PredictReturnsMappingPerHorizon ==
    (fc_last.op = "predict" /\ fc_last.inst \in fc_done /\ fc_last.result.raised = "") =>
        /\ fc_last.result.kind = "mapping"
        /\ DOMAIN fc_last.result.value = Range(HORIZONS)

\* The last SequenceLength rows of a table of n rows
LastRows(n) == [k \in 1..SequenceLength |-> n - SequenceLength + k]

\* C5: the sequence forecaster's predict_latest returns, for each horizon, the
\* model output for the window made of the most recent L rows of the table.
C5_LatestWindowEndsAtLastRow ==
    (fc_last.op = "predict_latest" /\ fc_last.inst \in Insts /\ fc_last.inst \in fc_done
        /\ fc_last.result.raised = "") =>
        \A h \in Range(HORIZONS) :
            fc_last.result.value[h].window = LastRows(fc_last.table[1].n)

\* The table of the last call carries the target and the instance's feature columns
TableFitsInstance ==
    /\ fc_last.table /= None
    /\ lstm[fc_last.inst].feature_cols /= None
    /\ Range(lstm[fc_last.inst].feature_cols[1]) \cup {TARGET_COLUMN}
          \subseteq Range(fc_last.table[1].columns)

\* C6: on a fitted sequence forecaster, predict and predict_latest raise the
\* data-sufficiency error when the table has fewer than L + max(H) rows, and
\* return at least one prediction per horizon when it has L + max(H) rows or more.
C6_EnoughRowsIffPrediction ==
    (IsPredictCall /\ fc_last.inst \in Insts /\ fc_last.inst \in fc_done
                   /\ lstm[fc_last.inst].model /= None /\ TableFitsInstance) =>
        IF fc_last.table[1].n < SequenceLength + MaxOfHorizons
        THEN fc_last.result.raised \in {"ValueError: not enough data",
                                        "ValueError: negative dimensions",
                                        "ValueError: need sequence_length samples"}
        ELSE /\ fc_last.result.raised = ""
             /\ \A h \in Range(HORIZONS) :
                   fc_last.op = "predict" => Len(fc_last.result.value[h]) >= 1

\* C7: LSTMForecaster.load raises an artifact error, and does not turn a newly
\* constructed instance into one that accepts predict, whenever the model file
\* or the scaler file next to it is missing.
C7_LoadFailsOnMissingArtifact ==
    (fc_last.op = "load" /\ fc_last.inst \in Insts
        /\ (~fc_last.found[1].model \/ ~fc_last.found[1].scaler)) =>
        /\ fc_last.result.raised /= ""
        /\ (fc_last.was_fresh => lstm[fc_last.inst].model = None)

\* C8: save(p) followed by load(p) on a new instance, p ending in .h5 or .keras,
\* succeeds and restores the weights, the scaler mean/std and the ordered
\* feature-column list, so predict_latest returns the same forecast on every table.
C8_SaveLoadRoundTrip ==
    (fc_last.op = "load" /\ fc_last.inst \in Insts /\ fc_last.was_fresh
        /\ fc_last.after_save /= None /\ fc_last.after_save[1].path = fc_last.path[1]) =>
        LET saved  == fc_last.after_save[1].inst
            loaded == lstm[fc_last.inst]
        IN  /\ fc_last.result.raised = ""
            /\ loaded.model = saved.model
            /\ loaded.scaler_mean = saved.scaler_mean
            /\ loaded.scaler_std = saved.scaler_std
            /\ loaded.feature_cols = saved.feature_cols
            /\ \A t \in PredictTables :
                  lstm_predict_latest(loaded, t) = lstm_predict_latest(saved, t)

\* C8 witness: a trained instance saved under a .h5 path and loaded back from it
\* into a new instance, which then forecasts from a table
C8_Witness ==
    /\ fc_last.op = "load"
    /\ fc_last.inst \in Insts
    /\ fc_last.was_fresh
    /\ fc_last.after_save /= None
    /\ fc_last.after_save[1].path = fc_last.path[1]
    /\ fc_last.path[1].suffix = ".h5"
    /\ fc_last.after_save[1].inst.model[1].trained
    /\ \E t \in PredictTables : lstm_predict_latest(lstm[fc_last.inst], t).raised = ""


(***************************************************************************)
(* Properties of the feature builder (checked under SpecFeatures)          *)
(***************************************************************************)

\* Whether cell (t, c) of an hourly table is present
Present(df, t, c) == t >= 1 /\ t <= Len(df.rows) /\ df.rows[t][c] /= None

\* Whether row t of the hourly, gap-filled table has its target and all the
\* values its lag columns are taken from
Usable(df, t) ==
    /\ Present(df, t, TARGET_COLUMN)
    /\ \A k \in DOMAIN LAG_HOURS : Present(df, t - LAG_HOURS[k], TARGET_COLUMN)
    /\ "wind_gust_m_s" \in df.columns =>
          \A k \in DOMAIN LAG_HOURS : k <= 3 => Present(df, t - LAG_HOURS[k], "wind_gust_m_s")

\* The lag columns build_features adds for a table with these input columns
ExpectedLagColumns(cols) ==
    {LagName(TARGET_COLUMN, LAG_HOURS[k]) : k \in DOMAIN LAG_HOURS}
        \cup (IF "wind_gust_m_s" \in cols
              THEN {LagName("wind_gust_m_s", LAG_HOURS[k]) : k \in {j \in DOMAIN LAG_HOURS : j <= 3}}
              ELSE {})

\* C9: a row of the hourly, gap-filled table appears in build_features' output iff
\* its target and all of its lag columns are non-missing; no output row has a null
\* target or lag column, a missing value in another column never drops a row, and
\* the retained rows keep their time order.
C9_RowKeptIffTargetAndLagsPresent ==
    (bf_out /= None /\ bf_out[1].op = "build_features" /\ bf_out[1].result.raised = "") =>
        LET df  == bf_out[1].input
            out == bf_out[1].result
            kept == {out.rows[k].hour : k \in DOMAIN out.rows}
        IN  /\ \A t \in 1..Len(df.rows) : (df.start + t - 1 \in kept) <=> Usable(df, t)
            /\ \A k \in DOMAIN out.rows :
                  /\ out.rows[k].hour \in df.start..(df.start + Len(df.rows) - 1)
                  /\ out.rows[k].cells[TARGET_COLUMN] /= None
                  /\ \A c \in ExpectedLagColumns(df.columns) :
                        c \in out.columns /\ out.rows[k].cells[c] /= None
            /\ \A j, k \in DOMAIN out.rows : j < k => out.rows[j].hour < out.rows[k].hour

\* C9 witness: an output that keeps a row with a missing value in a column that is
\* neither the target nor a lag, and that has dropped a row of the hourly table
C9_Witness ==
    /\ bf_out /= None
    /\ bf_out[1].op = "build_features"
    /\ bf_out[1].result.raised = ""
    /\ \E k \in DOMAIN bf_out[1].result.rows :
          \E c \in bf_out[1].input.columns : bf_out[1].result.rows[k].cells[c] = None
    /\ Len(bf_out[1].result.rows) >= 2
    /\ Len(bf_out[1].result.rows) < Len(bf_out[1].input.rows)

\* The run of missing values around position i of a column: the positions of the
\* nearest present values before and after (0 and Len + 1 when there is none)
RunLeft(col, i) ==
    LET before == {p \in 1..(i - 1) : col[p] /= None}
    IN  IF before = {} THEN 0 ELSE CHOOSE p \in before : \A x \in before : x <= p

RunRight(col, i) ==
    LET after == {q \in (i + 1)..Len(col) : col[q] /= None}
    IN  IF after = {} THEN Len(col) + 1 ELSE CHOOSE q \in after : \A x \in after : q <= x

\* C10: fill_small_gaps fills by linear interpolation every interior run of
\* consecutive missing values of length <= max_gap_hours, and leaves every value of
\* a longer run, and of every leading or trailing run, missing.
C10_OnlyShortInteriorRunsFilled ==
    (bf_out /= None /\ bf_out[1].op = "fill_small_gaps") =>
        LET df  == bf_out[1].input
            out == bf_out[1].result
        IN  \A c \in df.columns : \A i \in 1..Len(df.rows) :
                LET col == [k \in 1..Len(df.rows) |-> df.rows[k][c]]
                    p   == RunLeft(col, i)
                    q   == RunRight(col, i)
                IN  IF col[i] /= None THEN out.rows[i][c] = col[i]
                    ELSE IF p >= 1 /\ q <= Len(col) /\ q - p - 1 <= bf_gap
                    THEN out.rows[i][c] = <<col[p][1] + ((col[q][1] - col[p][1]) * (i - p)) \div (q - p)>>
                    ELSE out.rows[i][c] = None

\* C11: build_features never modifies the caller's observation table, and a second
\* call on the same table returns a table equal to the first call's (same columns,
\* same rows in the same order).
C11_BuildFeaturesIsPure ==
    (bf_out /= None /\ bf_out[1].op = "build_features") =>
        /\ bf_raw = bf_out[1].caller_before
        /\ bf_out[1].prev /= None => bf_out[1].result = bf_out[1].prev[1]

\* C11 witness: a second call that returned a non-empty table with added columns
C11_Witness ==
    /\ bf_out /= None
    /\ bf_out[1].op = "build_features"
    /\ bf_out[1].prev /= None
    /\ bf_out[1].result.raised = ""
    /\ Len(bf_out[1].result.rows) >= 2
    /\ bf_out[1].result.columns /= bf_raw.columns

\* C12: build_features raises, and returns no feature table, whenever the target
\* column wind_m_s is absent, the index is not a datetime index, or the index is
\* not in time order.
C12_SchemaErrorsRaise ==
    (bf_out /= None /\ bf_out[1].op = "build_features") =>
        LET raw == bf_out[1].caller_before
        IN  (TARGET_COLUMN \notin raw.columns \/ ~raw.datetime_index \/ ~IsTimeOrdered(raw))
                => bf_out[1].result.raised /= ""


(***************************************************************************)
(* Uncertainty estimates: models/quantiles.py compute_q90 and              *)
(* cli/infer.py make_forecast.  Values are integers in cm/s; the inputs    *)
(* are multiples of 10 so that x 1.2 and the percentile are exact.         *)
(***************************************************************************)

\* ---- bounds of the inputs ----
MaxPredictions == 2     \* longest predictions array

MaxResiduals == 3       \* longest residuals array

\* the forecaster's output layer is linear, so a prediction can be negative
PredictionValues == {-100, 0, 150, 300}

ResidualValues == {-100, 20, 50}

Abs(x) == IF x < 0 THEN -x ELSE x

\* np.sort of a sequence of integers
RECURSIVE SortAscending(_)
SortAscending(s) ==
    IF s = <<>> THEN <<>>
    ELSE LET m == CHOOSE i \in DOMAIN s : \A j \in DOMAIN s : s[i] <= s[j]
         IN  <<s[m]>> \o SortAscending([k \in 1..(Len(s) - 1) |-> IF k < m THEN s[k] ELSE s[k + 1]])

Percentile90_Max(a) == SortAscending(a)[Len(a)]

\* np.percentile(a, 90) of a non-empty array: linear interpolation between the
\* order statistics around position 0.9 * (n - 1) (0-based)
Percentile90(a) ==
    LET sorted == SortAscending(a)
        n      == Len(a)
        lo     == (9 * (n - 1)) \div 10
        frac   == (9 * (n - 1)) % 10
        hi     == IF frac = 0 THEN lo ELSE lo + 1
    IN  sorted[lo + 1] + ((sorted[hi + 1] - sorted[lo + 1]) * frac) \div 10

\* predictions * 1.2
Scale12(x) == (x * 12) \div 10

\* quantiles.py line 52: residuals is not None and len(residuals) > 0
UseResiduals(residuals) == residuals /= None /\ Len(residuals[1]) > 0

\* compute_q90 (quantiles.py lines 38-65): the array returned and the log
\* records emitted, by level
compute_q90(predictions, residuals) ==
    IF UseResiduals(residuals)
    THEN LET q90_residual == Percentile90([k \in DOMAIN residuals[1] |-> Abs(residuals[1][k])])
         IN  [value |-> [k \in DOMAIN predictions |-> predictions[k] + q90_residual],
              log   |-> <<>>]
    ELSE [value |-> [k \in DOMAIN predictions |-> Scale12(predictions[k])],
          log   |-> <<"WARNING">>]

\* make_forecast (infer.py lines 68-97) given what model.predict_latest returned:
\* a mapping from horizon key to value
make_forecast(median_forecast) ==
    [value |-> [median |-> median_forecast,
                q90    |-> [key \in DOMAIN median_forecast |-> Scale12(median_forecast[key])]],
     log   |-> <<"INFO", "INFO", "INFO">>]

\* What predict_latest can return: one value per horizon key
LatestForecasts == [{"horizon_1h", "horizon_3h"} -> PredictionValues]

\* ---- the calls ----
ComputeQ90(predictions, residuals) ==
    /\ q_out = None
    /\ q_out' = Some([op |-> "compute_q90", predictions |-> predictions,
                      residuals |-> residuals, out |-> compute_q90(predictions, residuals)])

MakeForecast(median_forecast) ==
    /\ q_out = None
    /\ q_out' = Some([op |-> "make_forecast", median |-> median_forecast,
                      out |-> make_forecast(median_forecast)])

InitQuantiles == UxIdle /\ DpIdle /\ FcIdle /\ BfIdle

NextQuantiles ==
    /\ UNCHANGED <<dp_vars, fc_vars, bf_vars, bt_out, sc_out, th_heap, fc_hist, pr_threads>>
    /\ \/ \E p \in SeqsUpTo(PredictionValues, MaxPredictions) :
            \E r \in {None} \cup {Some(x) : x \in SeqsUpTo(ResidualValues, MaxResiduals)} :
                ComputeQ90(p, r)
       \/ \E m \in LatestForecasts : MakeForecast(m)

SpecQuantiles == InitQuantiles /\ [][NextQuantiles]_vars

\* The 90th percentile of a non-empty array as numpy defines it: with the values
\* in ascending order v[0..n-1], the value at position 0.9 * (n - 1), taken
\* linearly between the two neighbouring order statistics
IsPercentile90(a, v) ==
    \E perm \in [DOMAIN a -> DOMAIN a] :
        /\ \A i, j \in DOMAIN a : i /= j => perm[i] /= perm[j]
        /\ \A i, j \in DOMAIN a : i < j => a[perm[i]] <= a[perm[j]]
        /\ LET n == Len(a)
               k == (9 * (n - 1)) \div 10
           IN  IF 10 * k = 9 * (n - 1) THEN v = a[perm[k + 1]]
               ELSE 10 * v = 10 * a[perm[k + 1]]
                               + (a[perm[k + 2]] - a[perm[k + 1]]) * (9 * (n - 1) - 10 * k)

\* C13: compute_q90 returns prediction + 90th percentile of |residuals| for every
\* element exactly when residuals are supplied and non-empty, and prediction x 1.2
\* for every element otherwise; no result mixes the two.
C13_ResidualPathIffResidualsGiven ==
    (q_out /= None /\ q_out[1].op = "compute_q90") =>
        LET p   == q_out[1].predictions
            r   == q_out[1].residuals
            out == q_out[1].out.value
        IN  /\ DOMAIN out = DOMAIN p
            /\ IF r /= None /\ r[1] /= <<>>
               THEN \E q \in 0..100 :
                       /\ IsPercentile90([k \in DOMAIN r[1] |-> IF r[1][k] < 0 THEN -r[1][k] ELSE r[1][k]], q)
                       /\ \A k \in DOMAIN p : out[k] = p[k] + q
               ELSE \A k \in DOMAIN p : 10 * out[k] = 12 * p[k]

\* C13 witness: a call on the residual path with several residuals and a call's
\* worth of predictions
C13_Witness ==
    /\ q_out /= None
    /\ q_out[1].op = "compute_q90"
    /\ q_out[1].residuals /= None
    /\ Len(q_out[1].residuals[1]) = MaxResiduals
    /\ Len(q_out[1].predictions) >= 2
    /\ q_out[1].out.value[1] > q_out[1].predictions[1] + 20

\* C14: every q90 forecast produced with the fixed x 1.2 multiplier, by compute_q90
\* or by make_forecast, comes with a warning record, and the residual path emits
\* no warning.
C14_FallbackIsWarned ==
    q_out /= None =>
        LET fallback == \/ q_out[1].op = "make_forecast"
                        \/ q_out[1].op = "compute_q90"
                             /\ (q_out[1].residuals = None \/ q_out[1].residuals[1] = <<>>)
            warned   == \E k \in DOMAIN q_out[1].out.log : q_out[1].out.log[k] = "WARNING"
        IN  fallback <=> warned

\* C29: every q90 value produced by compute_q90 is greater than or equal to the
\* median prediction it was derived from, on the residual path and on the x 1.2
\* fallback path.
C29_Q90AtLeastMedian ==
    (q_out /= None /\ q_out[1].op = "compute_q90") =>
        \A k \in DOMAIN q_out[1].predictions :
            q_out[1].out.value[k] >= q_out[1].predictions[k]


(***************************************************************************)
(* Backtesting: eval/backtest.py rolling_window_split and backtest_model,  *)
(* and eval/metrics.py skill_score.  A table of n rows is the sequence of  *)
(* its row positions 0 .. n-1; the target value of a row is kept symbolic  *)
(* (the row position stands for it).                                       *)
(***************************************************************************)

\* ---- bounds of the inputs ----
MaxTableLen == 6        \* longest table that is split

MaxWindow == 3          \* largest window_size

MaxStep == 2            \* largest step_size

MaxMinTrain == 3        \* largest min_train_size

\* df.iloc[a:b] of a table of n rows, 0 <= a: the row positions a .. min(b, n) - 1
Rows(n, a, b) == [k \in 1..Max(0, Min(b, n) - a) |-> a + k - 1]

TrainSlice_Sliding(n, start_idx, window_size) == Rows(n, Max(0, start_idx - window_size), start_idx)

\* backtest.py line 44: train_df = df.iloc[:start_idx]
TrainSlice(n, start_idx, window_size) == Rows(n, 0, start_idx)

\* backtest.py line 45: test_df = df.iloc[start_idx : start_idx + window_size]
TestSlice(n, start_idx, window_size) == Rows(n, start_idx, start_idx + window_size)

\* The while loop of rolling_window_split (lines 43-49) from start_idx on
RECURSIVE SplitsFrom(_, _, _, _)
SplitsFrom(n, window_size, step_size, start_idx) ==
    IF start_idx + window_size <= n
    THEN <<[train |-> TrainSlice(n, start_idx, window_size),
            test  |-> TestSlice(n, start_idx, window_size)]>>
            \o SplitsFrom(n, window_size, step_size, start_idx + step_size)
    ELSE <<>>

\* rolling_window_split (lines 20-52) on a table of n rows
rolling_window_split(n, window_size, step_size, min_train_size) ==
    SplitsFrom(n, window_size, step_size, min_train_size)

\* ---- skill score, in exact rational arithmetic: a value is [num, den], den > 0 ----
MaxMae == 4             \* largest MAE value tried (in units of the fixed point)

RECURSIVE GCD(_, _)
GCD(a, b) == IF b = 0 THEN a ELSE GCD(b, a % b)

\* The value num / den (den > 0) in lowest terms
Rational(num, den) ==
    LET g == GCD(Abs(num), den)
    IN  [num |-> num \div g, den |-> den \div g]

RatSub(x, y) == Rational(x.num * y.den - y.num * x.den, x.den * y.den)

skill_score_Ratio(mae_model, mae_baseline) ==
    IF mae_baseline = 0 THEN Rational(0, 1) ELSE Rational(mae_model, mae_baseline)

\* skill_score (metrics.py lines 89-108)
skill_score(mae_model, mae_baseline) ==
    IF mae_baseline = 0 THEN Rational(0, 1)
    ELSE RatSub(Rational(1, 1), Rational(mae_model, mae_baseline))

\* ---- the calls ----
RollingWindowSplit(n, window_size, step_size, min_train_size) ==
    /\ bt_out = None
    /\ bt_out' = Some([op |-> "rolling_window_split", n |-> n, window_size |-> window_size,
                       step_size |-> step_size, min_train_size |-> min_train_size,
                       out |-> rolling_window_split(n, window_size, step_size, min_train_size)])

SkillScore(mae_model, mae_baseline) ==
    /\ bt_out = None
    /\ bt_out' = Some([op |-> "skill_score", mae_model |-> mae_model,
                       mae_baseline |-> mae_baseline,
                       out |-> skill_score(mae_model, mae_baseline)])

\* ---- backtest_model ----
BacktestMinTrain == 2   \* min_train_size of the splits (the default of line 24), scaled to the tables

MaxPredLen == 2         \* longest prediction array a fold's predict returns

\* horizons argument of backtest_model
BacktestHorizons == <<1, 2>>

\* What the model does in one fold: fit raises, predict raises, or predict
\* returns a mapping with the horizons `keys`, each to an array of `len` values
FoldOutcomes ==
    [kind : {"fit_raises", "predict_raises"}, len : {0}, keys : {{}}]
        \cup [kind : {"ok"}, len : 0..MaxPredLen, keys : {{1}, {1, 2}}]

\* horizon_results (line 81)
EmptyResults == [h \in Range(BacktestHorizons) |-> [y_true |-> <<>>, y_pred |-> <<>>]]

\* Lines 101-111 for one horizon: the actuals test_df[TARGET].iloc[h:], the
\* predictions cut to their length, both cut to the shorter, appended when non-empty.
\* Prediction i of fold k for horizon h is kept symbolic
CollectHorizon(res, test, outcome, k, h) ==
    IF h \notin outcome.keys THEN res
    ELSE LET y_true  == SubSeq(test, h + 1, Len(test))
             n_pred  == Min(outcome.len, Len(y_true))
             min_len == Min(Len(y_true), n_pred)
         IN  IF min_len > 0
             THEN [y_true |-> res.y_true \o SubSeq(y_true, 1, min_len),
                   y_pred |-> res.y_pred \o [i \in 1..min_len |-> [fold |-> k, h |-> h, i |-> i - 1]]]
             ELSE res

Collect(results, test, outcome, k) ==
    [h \in DOMAIN results |-> CollectHorizon(results[h], test, outcome, k, h)]

NextFold_Break(k, n_folds, failed) == IF failed THEN n_folds + 1 ELSE k + 1

\* The fold processed after fold k: `continue` (lines 92, 99) and the end of the
\* loop body both go on with the next split
NextFold(k, n_folds, failed) == k + 1

\* The loop over the splits (lines 83-111) from fold k on; `seen` lists the folds
\* announced by the log line of line 84
RECURSIVE FoldsFrom(_, _, _, _)
FoldsFrom(acc, splits, outcomes, k) ==
    IF k > Len(splits) THEN acc
    ELSE LET failed == outcomes[k].kind /= "ok"
         IN  FoldsFrom([results |-> IF failed THEN acc.results
                                    ELSE Collect(acc.results, splits[k].test, outcomes[k], k),
                        seen    |-> Append(acc.seen, k)],
                       splits, outcomes, NextFold(k, Len(splits), failed))

\* evaluate_forecast (metrics.py lines 111-137): metrics of the two arrays
evaluate_forecast(y_true, y_pred) == [metrics_of |-> [y_true |-> y_true, y_pred |-> y_pred]]

\* backtest_model (lines 55-132) on a table of n rows with a model that behaves
\* as `outcomes` says, fold by fold
backtest_model(n, window_size, step_size, outcomes) ==
    LET splits == rolling_window_split(n, window_size, step_size, BacktestMinTrain)
        final  == FoldsFrom([results |-> EmptyResults, seen |-> <<>>], splits, outcomes, 1)
    IN  [raised  |-> "",
         metrics |-> [h \in Range(BacktestHorizons) |->
                        IF Len(final.results[h].y_true) > 0
                        THEN Some(evaluate_forecast(final.results[h].y_true, final.results[h].y_pred))
                        ELSE None],
         results |-> final.results,
         seen    |-> final.seen]

BacktestModel(n, window_size, step_size) ==
    /\ bt_out = None
    /\ \E outcomes \in [1..Len(rolling_window_split(n, window_size, step_size, BacktestMinTrain))
                          -> FoldOutcomes] :
          bt_out' = Some([op |-> "backtest_model", n |-> n, window_size |-> window_size,
                          step_size |-> step_size, outcomes |-> outcomes,
                          out |-> backtest_model(n, window_size, step_size, outcomes)])

InitBacktest == UxIdle /\ DpIdle /\ FcIdle /\ BfIdle

NextBacktest ==
    /\ UNCHANGED <<dp_vars, fc_vars, bf_vars, q_out, sc_out, th_heap, fc_hist, pr_threads>>
    /\ \/ \E n \in 0..MaxTableLen, w \in 1..MaxWindow, st \in 1..MaxStep, mt \in 0..MaxMinTrain :
            RollingWindowSplit(n, w, st, mt)
       \/ \E n \in 0..MaxTableLen, w \in 1..MaxWindow, st \in 1..MaxStep :
            BacktestModel(n, w, st)
       \/ \E m \in 0..MaxMae, b \in 0..MaxMae : SkillScore(m, b)

SpecBacktest == InitBacktest /\ [][NextBacktest]_vars

\* C15: rolling_window_split returns, in order, one fold for each k >= 0 with
\* s_k = min_train_size + k * step_size and s_k + window_size <= len(table); the
\* train slice is rows [0, s_k) and the test slice rows [s_k, s_k + window_size).
C15_FoldsAreExpandingWindows ==
    (bt_out /= None /\ bt_out[1].op = "rolling_window_split") =>
        LET c    == bt_out[1]
            s(k) == c.min_train_size + k * c.step_size
            ks   == {k \in 0..c.n : s(k) + c.window_size <= c.n}
        IN  /\ Len(c.out) = Cardinality(ks)
            /\ \A k \in ks :
                  /\ c.out[k + 1].train = [i \in 1..s(k) |-> i - 1]
                  /\ c.out[k + 1].test = [i \in 1..c.window_size |-> s(k) + i - 1]

\* C15 witness: several folds, made with a step larger than one
C15_Witness ==
    /\ bt_out /= None
    /\ bt_out[1].op = "rolling_window_split"
    /\ Len(bt_out[1].out) >= 2
    /\ bt_out[1].step_size >= 2
    /\ bt_out[1].min_train_size >= 1
    /\ bt_out[1].window_size >= 2

\* What the successful folds k, k+1, ... contribute to horizon h: for each, the
\* actuals from row h of its test slice on, paired with as many predictions
RECURSIVE ExpectedFrom(_, _, _)
ExpectedFrom(c, h, k) ==
    LET s     == BacktestMinTrain + (k - 1) * c.step_size
        count == IF c.outcomes[k].kind = "ok" /\ h \in c.outcomes[k].keys
                 THEN Max(0, Min(c.window_size - h, c.outcomes[k].len))
                 ELSE 0
    IN  IF k > Len(c.outcomes) THEN [y_true |-> <<>>, y_pred |-> <<>>]
        ELSE LET rest == ExpectedFrom(c, h, k + 1)
             IN  [y_true |-> [i \in 1..count |-> s + h + i - 1] \o rest.y_true,
                  y_pred |-> [i \in 1..count |-> [fold |-> k, h |-> h, i |-> i - 1]] \o rest.y_pred]

\* C16: a fold whose fit or predict raises contributes no value to any horizon's
\* accumulated arrays, every fold of the split is still processed, and the
\* backtest returns the metrics of what the successful folds contributed.
C16_FailedFoldsAreSkipped ==
    (bt_out /= None /\ bt_out[1].op = "backtest_model") =>
        LET c   == bt_out[1]
            out == c.out
        IN  /\ out.raised = ""
            /\ out.seen = [k \in 1..Len(c.outcomes) |-> k]
            /\ \A h \in Range(BacktestHorizons) :
                  /\ \A i \in DOMAIN out.results[h].y_pred :
                        c.outcomes[out.results[h].y_pred[i].fold].kind = "ok"
                  /\ out.results[h] = ExpectedFrom(c, h, 1)
                  /\ out.metrics[h] =
                        IF ExpectedFrom(c, h, 1).y_true = <<>> THEN None
                        ELSE Some([metrics_of |-> ExpectedFrom(c, h, 1)])

\* C16 witness: a backtest in which a fold failed in fit, a later fold failed in
\* predict, and a fold after both contributed predictions
C16_Witness ==
    /\ bt_out /= None
    /\ bt_out[1].op = "backtest_model"
    /\ \E i, j, k \in DOMAIN bt_out[1].outcomes :
          /\ i < j /\ j < k
          /\ bt_out[1].outcomes[i].kind = "fit_raises"
          /\ bt_out[1].outcomes[j].kind = "predict_raises"
          /\ \E p \in DOMAIN bt_out[1].out.results[1].y_pred :
                bt_out[1].out.results[1].y_pred[p].fold = k

\* C20: skill_score(m, b) = 1 - m / b for b > 0, hence 0 when m = b, 1 when m = 0
\* and negative exactly when m > b; for b = 0 it is 0.
C20_SkillScoreValues ==
    (bt_out /= None /\ bt_out[1].op = "skill_score") =>
        LET m   == bt_out[1].mae_model
            b   == bt_out[1].mae_baseline
            out == bt_out[1].out
        IN  /\ out.den > 0
            /\ b > 0 => /\ out.num * b = (b - m) * out.den
                        /\ (m = b => out.num = 0)
                        /\ (m = 0 => out.num = out.den)
                        /\ (out.num < 0 <=> m > b)
            /\ b = 0 => out.num = 0

\* C20 witness: a model worse than a non-zero baseline
C20_Witness ==
    /\ bt_out /= None
    /\ bt_out[1].op = "skill_score"
    /\ bt_out[1].mae_baseline > 0
    /\ bt_out[1].mae_model > bt_out[1].mae_baseline
    /\ bt_out[1].out.num < 0

\* C17: PersistenceModel.predict_latest on a non-empty table (one that holds the
\* target column) returns one entry per configured horizon, each equal to the
\* target value of the table's last row.
C17_PersistenceLatestIsLastTarget ==
    (/\ fc_last.op = "predict_latest"
     /\ fc_last.inst = "p"
     /\ fc_last.table[1].n >= 1
     /\ TARGET_COLUMN \in Range(fc_last.table[1].columns)) =>
        /\ fc_last.result.raised = ""
        /\ DOMAIN fc_last.result.value = Range(HORIZONS)
        \* row r of a table carries the value r: the last row's target is n
        /\ \A h \in Range(HORIZONS) : fc_last.result.value[h] = fc_last.table[1].n

\* C17 witness: a latest forecast from a table of several rows, for several horizons
C17_Witness ==
    /\ fc_last.op = "predict_latest"
    /\ fc_last.inst = "p"
    /\ fc_last.table[1].n >= 2
    /\ fc_last.result.raised = ""
    /\ Cardinality(DOMAIN fc_last.result.value) >= 2


(***************************************************************************)
(* Advisory helpers of the decision engine: rules.py compute_safety_score  *)
(* and suggest_alternative_times.  A forecast dictionary is a sequence of  *)
(* [key, value] in insertion order; the score is an exact rational.        *)
(***************************************************************************)

\* ---- bounds of the inputs ----
MaxTimes == 2           \* number of timestamps in forecasts_by_time

\* Wind values tried for the score, in cm/s; a forecaster's output layer is
\* linear (lstm_model.py line 95), so a forecast can be negative
ScoreWinds == {-100, 0, 200, 600}

ScoreForecasts ==
    {m \in SeqsUpTo([key : {k \in HorizonKeys : k.prefixed}, value : ScoreWinds], MaxKeys) :
        Injective([k \in DOMAIN m |-> m[k].key])}

RatAdd(x, y) == Rational(x.num * y.den + y.num * x.den, x.den * y.den)

\* max(0, x)
RatMax0(x) == IF x.num > 0 THEN x ELSE Rational(0, 1)

\* compute_safety_score (rules.py lines 146-184)
compute_safety_score(median, q90, thresholds, file) ==
    LET play == IF IsSome(thresholds) THEN Get(thresholds) ELSE load_thresholds(file)
    IN  IF median = <<>> \/ q90 = <<>> THEN [raised |-> "ValueError: max() of empty"]
        ELSE LET worst_median == SeqMax([k \in DOMAIN median |-> median[k].value])
                 worst_q90    == SeqMax([k \in DOMAIN q90 |-> q90[k].value])
                 median_score == RatMax0(RatSub(Rational(1, 1),
                                                Rational(worst_median, play.median_max_m_s)))
                 q90_score    == RatMax0(RatSub(Rational(1, 1),
                                                Rational(worst_q90, play.q90_max_m_s)))
                 sum          == RatAdd(median_score, q90_score)
             IN  [raised |-> "", score |-> Rational(sum.num, 2 * sum.den)]

\* The forecast of one timestamp: the "median" and "q90" entries, each present
\* (<<mapping>>) or absent (<<>>); the q90 mapping is a function of the key
TimeForecasts ==
    LET k1 == [prefixed |-> TRUE, horizon |-> "1h"]
    IN  [median : {None, Some(<<[key |-> k1, value |-> 333]>>), Some(<<[key |-> k1, value |-> 334]>>)},
         q90    : {None, Some([k \in {k1} |-> 500])}]

Timestamps == <<"t1", "t2", "t3", "t4">>

\* forecast.get(name, {})
GetOrEmpty(entry) == IF IsSome(entry) THEN Get(entry) ELSE <<>>

\* The loop of suggest_alternative_times (lines 203-213) from entry i on; an
\* error of decide_play is not caught
RECURSIVE SafeTimesFrom(_, _, _, _, _)
SafeTimesFrom(acc, forecasts, thresholds, file, i) ==
    IF i > Len(forecasts) THEN acc
    ELSE LET decision == decide_play(GetOrEmpty(forecasts[i].forecast.median),
                                     GetOrEmpty(forecasts[i].forecast.q90),
                                     thresholds, None, file)
         IN  IF decision.raised /= "" THEN [acc EXCEPT !.raised = decision.raised]
             ELSE SafeTimesFrom([acc EXCEPT !.decisions = Append(@, decision.decision),
                                            !.safe_times =
                                                IF decision.decision = "PLAY"
                                                THEN Append(@, forecasts[i].timestamp) ELSE @],
                                forecasts, thresholds, file, i + 1)

\* suggest_alternative_times (lines 187-217); `decisions` lists what decide_play
\* answered for the entries, in order
suggest_alternative_times(forecasts, thresholds, file) ==
    SafeTimesFrom([raised |-> "", safe_times |-> <<>>, decisions |-> <<>>], forecasts,
                  IF IsSome(thresholds) THEN thresholds ELSE Some(load_thresholds(file)),
                  file, 1)

\* ---- the calls ----
ComputeSafetyScore(median, q90, thresholds, file) ==
    /\ sc_out = None
    /\ sc_out' = Some([op |-> "compute_safety_score", median |-> median, q90 |-> q90,
                       thresholds |-> thresholds, file |-> file,
                       out |-> compute_safety_score(median, q90, thresholds, file)])

SuggestAlternativeTimes(forecasts, thresholds, file) ==
    /\ sc_out = None
    /\ sc_out' = Some([op |-> "suggest_alternative_times", forecasts |-> forecasts,
                       thresholds |-> thresholds, file |-> file,
                       out |-> suggest_alternative_times(forecasts, thresholds, file)])

\* thresholds argument and thresholds file: the file matters only without the argument
ThresholdSources ==
    {[thresholds |-> Some(DEFAULT_THRESHOLDS), file |-> None],
     [thresholds |-> None, file |-> None],
     [thresholds |-> None, file |-> Some(CustomThresholds)]}

InitAdvice == UxIdle /\ DpIdle /\ FcIdle /\ BfIdle

NextAdvice ==
    /\ UNCHANGED <<dp_vars, fc_vars, bf_vars, q_out, bt_out, th_heap, fc_hist, pr_threads>>
    /\ \/ \E m \in ScoreForecasts, q \in ScoreForecasts, t \in ThresholdSources :
            ComputeSafetyScore(m, q, t.thresholds, t.file)
       \/ \E n \in 0..MaxTimes : \E f \in [1..n -> TimeForecasts] : \E t \in ThresholdSources :
            SuggestAlternativeTimes([i \in 1..n |-> [timestamp |-> Timestamps[i], forecast |-> f[i]]],
                                    t.thresholds, t.file)

SpecAdvice == InitAdvice /\ [][NextAdvice]_vars

\* C18: for every non-empty median and q90 forecast and positive thresholds,
\* compute_safety_score returns a value between 0 and 1 inclusive, equal to the
\* average of max(0, 1 - max(median)/median_max) and max(0, 1 - max(q90)/q90_max).
C18_SafetyScoreInUnitInterval ==
    (/\ sc_out /= None
     /\ sc_out[1].op = "compute_safety_score"
     /\ sc_out[1].median /= <<>>
     /\ sc_out[1].q90 /= <<>>) =>
        LET c    == sc_out[1]
            play == IF c.thresholds /= None THEN c.thresholds[1]
                    ELSE IF c.file /= None THEN c.file[1] ELSE DEFAULT_THRESHOLDS
            mm   == play.median_max_m_s
            qm   == play.q90_max_m_s
            wm   == CHOOSE v \in {c.median[k].value : k \in DOMAIN c.median} :
                        \A k \in DOMAIN c.median : c.median[k].value <= v
            wq   == CHOOSE v \in {c.q90[k].value : k \in DOMAIN c.q90} :
                        \A k \in DOMAIN c.q90 : c.q90[k].value <= v
            pos(x) == IF x > 0 THEN x ELSE 0
            \* the average, as a fraction
            num  == qm * pos(mm - wm) + mm * pos(qm - wq)
            den  == 2 * mm * qm
            g    == GCD(num, den)
        IN  /\ c.out.raised = ""
            /\ c.out.score.den > 0
            /\ 0 <= c.out.score.num
            /\ c.out.score.num <= c.out.score.den
            /\ c.out.score.num = num \div g
            /\ c.out.score.den = den \div g

\* C19: a forecast with no horizon values (an entry of forecasts_by_time lacking
\* "median" or "q90") never gets the decision PLAY and is never listed as a safe
\* alternative time.
C19_EmptyForecastFailsClosed ==
    (/\ sc_out /= None
     /\ sc_out[1].op = "suggest_alternative_times"
     /\ sc_out[1].out.raised = "") =>
        \A i \in DOMAIN sc_out[1].forecasts :
            LET f == sc_out[1].forecasts[i]
            IN  (f.forecast.median = None \/ f.forecast.q90 = None) =>
                    /\ sc_out[1].out.decisions[i] /= "PLAY"
                    /\ \A k \in DOMAIN sc_out[1].out.safe_times :
                          sc_out[1].out.safe_times[k] /= f.timestamp

(***************************************************************************)
(* The while loop of rolling_window_split (eval/backtest.py lines 41-52),  *)
(* one iteration per step, for every integer step_size.  The record in     *)
(* bt_out holds the call's arguments, start_idx, the number of folds       *)
(* appended so far and the position of control.                            *)
(***************************************************************************)

\* The folds appended are counted up to this number; a call that terminates with
\* a positive step appends at most MaxTableLen + 1 folds
\* (a call still at "while" with LoopCondition true at this count is a call whose
\* loop goes on in the code: start_idx never grows, so the condition never fails)
MaxSplits == MaxTableLen + 2

\* step_size arguments: any integer is accepted (no validation before line 43)
StepSizes == {-1} \cup (0..MaxStep)

\* line 43: while start_idx + window_size <= len(df)
LoopCondition(c) == c.start_idx + c.window_size <= c.n

\* lines 38-41: splits = [], start_idx = min_train_size
SplitLoopCall(n, window_size, step_size, min_train_size) ==
    /\ bt_out = None
    /\ bt_out' = Some([op |-> "split_loop", n |-> n, window_size |-> window_size,
                       step_size |-> step_size, min_train_size |-> min_train_size,
                       start_idx |-> min_train_size, n_splits |-> 0, pc |-> "while"])

\* lines 43-49: one pass through the loop body
SplitLoopIterate ==
    /\ bt_out /= None
    /\ bt_out[1].op = "split_loop"
    /\ bt_out[1].pc = "while"
    /\ LoopCondition(bt_out[1])
    /\ bt_out[1].n_splits < MaxSplits
    /\ bt_out' = Some([bt_out[1] EXCEPT !.start_idx = @ + bt_out[1].step_size,
                                        !.n_splits  = @ + 1])

\* lines 51-52: the condition is false, the list is returned
SplitLoopReturn ==
    /\ bt_out /= None
    /\ bt_out[1].op = "split_loop"
    /\ bt_out[1].pc = "while"
    /\ ~LoopCondition(bt_out[1])
    /\ bt_out' = Some([bt_out[1] EXCEPT !.pc = "returned"])

InitSplitLoop == InitBacktest

NextSplitLoop ==
    /\ UNCHANGED <<dp_vars, fc_vars, bf_vars, q_out, sc_out, th_heap, fc_hist, pr_threads>>
    /\ \/ \E n \in 0..MaxTableLen, w \in 1..MaxWindow, st \in StepSizes, mt \in 0..MaxMinTrain :
            SplitLoopCall(n, w, st, mt)
       \/ SplitLoopIterate
       \/ SplitLoopReturn

\* The interpreter keeps executing the loop: a step that is possible is taken
SpecSplitLoop == InitSplitLoop /\ [][NextSplitLoop]_vars /\ WF_vars(NextSplitLoop)

\* The loop agrees with rolling_window_split as modelled above whenever it returns
\* with a positive step
SplitLoopAgrees ==
    (bt_out /= None /\ bt_out[1].op = "split_loop" /\ bt_out[1].pc = "returned"
        /\ bt_out[1].step_size >= 1) =>
        bt_out[1].n_splits = Len(rolling_window_split(bt_out[1].n, bt_out[1].window_size,
                                                      bt_out[1].step_size, bt_out[1].min_train_size))

C25_RecordIsConsistent ==
    (dp_result /= None /\ dp_result[1].raised = "") =>
        LET r == dp_result[1]
        IN  /\ Cardinality(DOMAIN r.details) = Len(dp_args[1].median_forecast)
            /\ (r.decision = "PLAY") <=>
                   \A h \in DOMAIN r.details :
                       r.details[h].passes /\ r.details[h].violations = <<>>

(***************************************************************************)
(* Threshold objects in memory: decision/rules.py load_thresholds and      *)
(* decide_play by object identity.  DEFAULT_THRESHOLDS["play"] and the     *)
(* caller's thresholds["play"] are dictionaries that live across calls; a  *)
(* returned record's "thresholds" entry is a reference to one dictionary.  *)
(***************************************************************************)

\* ---- bounds ----
MaxDecisions == 2       \* calls of decide_play / load_thresholds in a run

MaxWrites == 1          \* writes the caller makes into returned records

\* median_forecast / q90_forecast of the calls: one horizon
SharedKey == [prefixed |-> TRUE, horizon |-> "1h"]

SharedMedians == {<<[key |-> SharedKey, value |-> v]>> : v \in MedianWinds}

SharedQ90 == [k \in {SharedKey} |-> 500]

\* values the caller writes into record["thresholds"]["median_max_m_s"]
WrittenLimits == {0, 1000}

\* The dictionary thresholds["play"] that decide_play reads (lines 70-73) and puts
\* into the record (line 139): the argument's, or the one of load_thresholds()
\* (lines 32-38): json.load builds a new one, DEFAULT_THRESHOLDS.copy() is a
\* shallow copy whose "play" is the dictionary of DEFAULT_THRESHOLDS itself
PlayObject(h, given) ==
    IF given THEN "arg"
    ELSE IF h.file /= None THEN "own" ELSE "default"

\* Content of a dictionary at the time of a call
PlayContent(h, obj) ==
    CASE obj = "arg"     -> h.arg_play[1]
      [] obj = "default" -> h.default_play
      [] obj = "own"     -> h.file[1]

\* decide_play(median, q90, thresholds) with thresholds the caller's dictionary
\* (given) or None
SharedDecidePlay(median, given) ==
    /\ th_heap /= None
    /\ Len(th_heap[1].records) < MaxDecisions
    /\ given => th_heap[1].arg_play /= None
    /\ LET h   == th_heap[1]
           obj == PlayObject(h, given)
           out == decide_play(median, SharedQ90, Some(PlayContent(h, obj)), None, None)
       IN  th_heap' = Some([h EXCEPT !.records =
                       Append(@, [op |-> "decide_play", median |-> median, given |-> given,
                                  out |-> out, thresholds_ref |-> obj,
                                  own |-> IF obj = "own" THEN Some(out.thresholds) ELSE None])])

\* load_thresholds() (lines 20-40)
SharedLoadThresholds ==
    /\ th_heap /= None
    /\ Len(th_heap[1].records) < MaxDecisions
    /\ LET h   == th_heap[1]
           obj == PlayObject(h, FALSE)
       IN  th_heap' = Some([h EXCEPT !.records =
                       Append(@, [op |-> "load_thresholds", median |-> <<>>, given |-> FALSE,
                                  out |-> PlayContent(h, obj), thresholds_ref |-> obj,
                                  own |-> IF obj = "own" THEN Some(PlayContent(h, obj)) ELSE None])])

\* The caller writes record["thresholds"]["median_max_m_s"] = limit into the record
\* that call k of decide_play returned: the dictionary referred to is changed
ModifyRecord(k, limit) ==
    /\ th_heap /= None
    /\ th_heap[1].writes < MaxWrites
    /\ k \in DOMAIN th_heap[1].records
    /\ th_heap[1].records[k].op = "decide_play"
    /\ LET h   == th_heap[1]
           obj == h.records[k].thresholds_ref
       IN  th_heap' = Some([h EXCEPT
               !.writes       = @ + 1,
               !.default_play = IF obj = "default" THEN [@ EXCEPT !.median_max_m_s = limit] ELSE @,
               !.arg_play     = IF obj = "arg" THEN Some([@[1] EXCEPT !.median_max_m_s = limit]) ELSE @,
               !.records[k].own = IF obj = "own" THEN Some([@[1] EXCEPT !.median_max_m_s = limit]) ELSE @])

InitShared ==
    /\ \E arg \in {None, Some(CustomThresholds)}, file \in {None, Some(CustomThresholds)} :
          th_heap = Some([default_play |-> DEFAULT_THRESHOLDS, arg_play |-> arg,
                          arg_given |-> arg, file |-> file, records |-> <<>>, writes |-> 0])
    /\ q_out = None /\ bt_out = None /\ sc_out = None /\ fc_hist = None /\ pr_threads = None
    /\ DpIdle /\ FcIdle /\ BfIdle

NextShared ==
    /\ UNCHANGED <<dp_vars, fc_vars, bf_vars, q_out, bt_out, sc_out, fc_hist, pr_threads>>
    /\ \/ \E m \in SharedMedians, given \in BOOLEAN : SharedDecidePlay(m, given)
       \/ SharedLoadThresholds
       \/ \E k \in 1..MaxDecisions, limit \in WrittenLimits : ModifyRecord(k, limit)

SpecShared == InitShared /\ [][NextShared]_vars

\* C28: decide_play never modifies the thresholds argument or DEFAULT_THRESHOLDS,
\* and a returned record shares no mutable data with them: whatever the caller
\* writes into returned records, every decide_play and load_thresholds call
\* returns what the thresholds as configured give.
C28_RecordSharesNothing ==
    th_heap /= None =>
        LET h == th_heap[1]
        IN  /\ h.writes = 0 => (h.default_play = DEFAULT_THRESHOLDS /\ h.arg_play = h.arg_given)
            /\ \A k \in DOMAIN h.records :
                  LET r == h.records[k]
                  IN  IF r.op = "decide_play"
                      THEN r.out = decide_play(r.median, SharedQ90,
                                               IF r.given THEN h.arg_given ELSE None, None, h.file)
                      ELSE r.out = load_thresholds(h.file)

(***************************************************************************)
(* Further properties of the feature builder (checked under SpecFeatures)  *)
(***************************************************************************)

\* C24: in build_features' output, for every row at hour t and every configured
\* lag L, the column wind_m_s_lag_Lh equals the gap-filled hourly target at
\* timestamp t - L hours, also when the raw series is irregularly sampled or has
\* gaps.
C24_LagIsTargetLHoursEarlier ==
    (bf_out /= None /\ bf_out[1].op = "build_features" /\ bf_out[1].result.raised = "") =>
        LET df  == bf_out[1].input
            out == bf_out[1].result
        IN  \A k \in DOMAIN out.rows : \A i \in DOMAIN LAG_HOURS :
                LET t == out.rows[k].hour - df.start + 1
                    L == LAG_HOURS[i]
                IN  /\ t - L >= 1
                    /\ df.rows[t - L][TARGET_COLUMN] /= None
                    /\ out.rows[k].cells[LagName(TARGET_COLUMN, L)] = df.rows[t - L][TARGET_COLUMN]

\* C24 witness: an output with rows, several lags, built from a raw series with
\* an hour without any observation and an hour with two
C24_Witness ==
    /\ bf_out /= None
    /\ bf_out[1].op = "build_features"
    /\ bf_out[1].result.raised = ""
    /\ Len(LAG_HOURS) >= 2
    /\ Len(bf_out[1].result.rows) >= 2
    /\ LET obs == bf_out[1].caller_before.obs
           df  == bf_out[1].input
       IN  /\ \E h \in df.start..(df.start + Len(df.rows) - 1) :
                 \A j \in DOMAIN obs : obs[j].hour /= h
           /\ \E i, j \in DOMAIN obs : i /= j /\ obs[i].hour = obs[j].hour

(***************************************************************************)
(* backtest_model with the forecasters of the repository: which rows the   *)
(* predictions of a fold forecast and which actuals they are paired with.  *)
(* Rows are absolute 0-based positions in the table; values are in units   *)
(* of 0.01 m/s, so the horizon h as a number is the value 100 * h.         *)
(***************************************************************************)

\* ---- bounds ----
MaxExtraRows == 7       \* rows of the table beyond min_train_size

MaxAlignWindow == 6     \* largest window_size

MaxSeqLen == 2          \* largest sequence_length of the sequence forecaster

\* min_train_size default of rolling_window_split, which backtest_model uses
DefaultMinTrainSize == 168

\* What model.predict(test_df) is: PersistenceModel.predict (an array of the
\* target values), a forecaster that returns a mapping horizon -> array with one
\* prediction per test row, or LSTMForecaster.predict
ModelKinds == {"persistence", "per_row", "sequence"}

\* Two synthetic series: one whose values are never a whole number of m/s, one
\* that takes the values 1.0, 2.0 and 3.0 m/s
SeriesKinds == {"fractional", "whole"}

TargetAt(series, row) ==
    IF series = "fractional" THEN 10 * row + 7 ELSE 100 * (1 + (row % 3))

\* model.predict(test_df) (line 96) for a test slice; a prediction of a mapping
\* is kept symbolic: the test row it is issued from (the first row of its window
\* for the sequence forecaster) and the row whose target it forecasts
\* (lstm_model.py line 143: y_values[i + sequence_length + h - 1])
PredictOnTest(model, seq_len, series, test) ==
    CASE model = "persistence" ->
            [raised |-> "", is_mapping |-> FALSE,
             array |-> [i \in 1..Len(test) |-> TargetAt(series, test[i])]]
      [] model = "per_row" ->
            [raised |-> "", is_mapping |-> TRUE,
             by_h |-> [h \in Range(BacktestHorizons) |->
                         [i \in 1..Len(test) |->
                            [issued_from |-> test[i], forecasts |-> test[i] + h]]]]
      [] model = "sequence" ->
            LET n_samples == Len(test) - seq_len - SeqMax(BacktestHorizons)
            IN  IF n_samples <= 0
                THEN [raised |-> "ValueError"]
                ELSE [raised |-> "", is_mapping |-> TRUE,
                      by_h |-> [h \in Range(BacktestHorizons) |->
                                  [i \in 1..n_samples |->
                                     [issued_from |-> test[i],
                                      forecasts   |-> test[i] + seq_len + h - 1]]]]

\* `h in predictions` (line 103): key membership for a mapping, any(array == h)
\* for a numpy array
HorizonIn(h, predictions) ==
    IF predictions.is_mapping THEN h \in DOMAIN predictions.by_h
    ELSE \E i \in DOMAIN predictions.array : predictions.array[i] = 100 * h

\* Lines 103-111 for one horizon.  On an array, predictions[h] is one number (or
\* out of range) and slicing it raises IndexError
AlignHorizon(acc, series, test, predictions, h) ==
    IF acc.raised /= "" \/ ~HorizonIn(h, predictions) THEN acc
    ELSE IF ~predictions.is_mapping THEN [acc EXCEPT !.raised = "IndexError"]
    ELSE LET y_true  == [i \in 1..Max(0, Len(test) - h) |->
                            [row |-> test[i + h], value |-> TargetAt(series, test[i + h])]]
             y_pred  == SubSeq(predictions.by_h[h], 1, Min(Len(predictions.by_h[h]), Len(y_true)))
             min_len == Min(Len(y_true), Len(y_pred))
         IN  IF min_len > 0
             THEN [acc EXCEPT !.results[h].y_true = @ \o SubSeq(y_true, 1, min_len),
                              !.results[h].y_pred = @ \o SubSeq(y_pred, 1, min_len)]
             ELSE acc

RECURSIVE AlignHorizonsFrom(_, _, _, _, _)
AlignHorizonsFrom(acc, series, test, predictions, i) ==
    IF i > Len(BacktestHorizons) THEN acc
    ELSE AlignHorizonsFrom(AlignHorizon(acc, series, test, predictions, BacktestHorizons[i]),
                           series, test, predictions, i + 1)

\* The loop over the splits (lines 83-111); fit succeeds on the training slices
\* (at least min_train_size rows with the target column), a predict that raises
\* skips the fold (lines 97-99), an error in lines 101-111 ends the call
RECURSIVE AlignFoldsFrom(_, _, _, _, _, _)
AlignFoldsFrom(acc, model, seq_len, series, splits, k) ==
    IF k > Len(splits) \/ acc.raised /= "" THEN acc
    ELSE LET predictions == PredictOnTest(model, seq_len, series, splits[k].test)
         IN  AlignFoldsFrom(IF predictions.raised /= "" THEN acc
                            ELSE AlignHorizonsFrom(acc, series, splits[k].test, predictions, 1),
                            model, seq_len, series, splits, k + 1)

\* backtest_model(model, df, horizons, window_size, step_size) (lines 55-132)
backtest_with(model, seq_len, series, n, window_size, step_size) ==
    LET splits == rolling_window_split(n, window_size, step_size, DefaultMinTrainSize)
        final  == AlignFoldsFrom([raised |-> "", results |-> EmptyResults],
                                 model, seq_len, series, splits, 1)
    IN  IF final.raised /= ""
        THEN [raised |-> final.raised, n_folds |-> Len(splits)]
        ELSE [raised  |-> "",
              n_folds |-> Len(splits),
              metrics |-> [h \in Range(BacktestHorizons) |->
                             IF Len(final.results[h].y_true) > 0
                             THEN Some(evaluate_forecast(final.results[h].y_true,
                                                         final.results[h].y_pred))
                             ELSE None],
              results |-> final.results]

BacktestWith(model, seq_len, series, n, window_size, step_size) ==
    /\ bt_out = None
    /\ bt_out' = Some([op |-> "backtest_with", model |-> model, seq_len |-> seq_len,
                       series |-> series, n |-> n, window_size |-> window_size,
                       step_size |-> step_size,
                       out |-> backtest_with(model, seq_len, series, n, window_size, step_size)])

InitAlign == InitBacktest

NextAlign ==
    /\ UNCHANGED <<dp_vars, fc_vars, bf_vars, q_out, sc_out, th_heap, fc_hist, pr_threads>>
    /\ \E model \in ModelKinds, seq_len \in 1..MaxSeqLen, series \in SeriesKinds,
          extra \in 0..MaxExtraRows, w \in 1..MaxAlignWindow, st \in 1..MaxStep :
            BacktestWith(model, seq_len, series, DefaultMinTrainSize + extra, w, st)

SpecAlign == InitAlign /\ [][NextAlign]_vars

\* C22: in backtest_model, for every fold and horizon h, each accumulated pair
\* (y_true[k], y_pred[k]) pairs a prediction with the actual target of the row
\* that prediction forecasts (test row k + h for a forecaster that predicts from
\* test row k, row k + L + h - 1 for the sequence forecaster), and y_true and
\* y_pred have equal length.
C22_PairsAreAligned ==
    (bt_out /= None /\ bt_out[1].op = "backtest_with" /\ bt_out[1].out.raised = "") =>
        \A h \in Range(BacktestHorizons) :
            LET r == bt_out[1].out.results[h]
            IN  /\ Len(r.y_true) = Len(r.y_pred)
                /\ \A j \in DOMAIN r.y_true : r.y_true[j].row = r.y_pred[j].forecasts

\* C23: backtest_model with the persistence baseline over a table that yields at
\* least one fold completes without an uncaught error and returns metrics for
\* every requested horizon h < window_size.
C23_PersistenceBacktestGivesMetrics ==
    (bt_out /= None /\ bt_out[1].op = "backtest_with" /\ bt_out[1].model = "persistence"
        /\ bt_out[1].out.n_folds >= 1) =>
        /\ bt_out[1].out.raised = ""
        /\ \A h \in Range(BacktestHorizons) :
              h < bt_out[1].window_size => bt_out[1].out.metrics[h] /= None

(***************************************************************************)
(* Lifetime of LSTMForecaster instances: which call set each learned field *)
(* of an instance, and what each model path was saved with.  Two           *)
(* instances share the model directories; a run starts with both newly     *)
(* constructed or both fitted.                                             *)
(***************************************************************************)

LifeInsts == {"a", "b"}

LearnedFields == {"model", "feature_cols", "scaler_mean", "scaler_std"}

\* The instance a fit on fi leaves when it returns (fit lines 166-237)
FittedBy(fi) ==
    LET cols == get_feature_columns(fi.train)
    IN  [model        |-> Some([cols |-> cols, of |-> fi, trained |-> TRUE]),
         feature_cols |-> Some(cols),
         scaler_mean  |-> Some([stat |-> "mean", of |-> fi, cols |-> cols]),
         scaler_std   |-> Some([stat |-> "std", of |-> fi, cols |-> cols])]

\* The two fits the fitted instances of a run come from
FitOfInst ==
    [i \in LifeInsts |->
        IF i = "a" THEN [train |-> [columns |-> <<"wind_m_s", "f1", "f2">>, n |-> 40], val |-> None]
        ELSE [train |-> [columns |-> <<"wind_m_s", "f2", "f1">>, n |-> 8],
              val   |-> Some([columns |-> <<"wind_m_s", "f2", "f1">>, n |-> 6])]]

\* Tables handed to predict in these runs
LifeTables == {t \in PredictTables : t.n = MaxRows /\ t.columns = <<"wind_m_s", "f1", "f2">>}

\* The fields a fit call assigns before it returns or raises: feature_cols (line
\* 166) and the scaler (lines 176-178) always, the model (line 204) once the
\* sequences have been made (lines 198-199)
FitAssigns(fi) ==
    LET split   == SplitIdx(fi.train.n)
        n_train == IF IsSome(fi.val) THEN NSamples(fi.train.n) ELSE NSamples(split)
        n_val   == IF IsSome(fi.val) THEN NSamples(Get(fi.val).n)
                                     ELSE NSamples(fi.train.n - split)
    IN  IF \/ IsSome(fi.val) /\ ~HasColumns(Get(fi.val), get_feature_columns(fi.train))
           \/ TARGET_COLUMN \notin Range(fi.train.columns)
           \/ n_train < 0
           \/ n_val < 0
        THEN LearnedFields \ {"model"}
        ELSE LearnedFields

\* The fields a load call assigns: none when the model file is missing (lines
\* 343-355), the model (line 358), and the scaler and feature_cols when
\* scaler.npz exists (lines 362-366)
LoadAssigns(path) ==
    IF LoadPath(path) = None THEN {}
    ELSE IF IsSome(fs_scalers[ScalerDir(Get(LoadPath(path)))]) THEN LearnedFields
    ELSE {"model"}

\* The call now made is call fc_calls + 1: it set `fields` of instance i, and
\* returned normally or not
Stamp(i, fields, returned) ==
    Some([fc_hist[1] EXCEPT
            !.origin[i] = [f \in LearnedFields |-> IF f \in fields THEN fc_calls + 1 ELSE @[f]],
            !.completed = IF returned THEN @ \cup {fc_calls + 1} ELSE @])

LifeFit(i, fi) ==
    /\ LstmFit(i, fi)
    /\ fc_hist' = Stamp(i, FitAssigns(fi), fc_last'.result.raised = "")

LifeLoad(i, path) ==
    /\ LstmLoad(i, path)
    /\ fc_hist' = Stamp(i, LoadAssigns(path), fc_last'.result.raised = "")

\* save: a save that returns leaves the bundle of the instance at the path; one
\* that raises after writing the model file (line 320) leaves no bundle of one
\* instance there
LifeSave(i, path) ==
    /\ LstmSave(i, path)
    /\ fc_hist' = Some([fc_hist[1] EXCEPT
            !.completed = IF fc_last'.result.raised = "" THEN @ \cup {fc_calls + 1} ELSE @,
            !.saved[SavePath(path)] =
                IF fc_last'.result.raised = "" THEN Some(lstm[i])
                ELSE IF lstm[i].model /= None THEN None
                ELSE @])

LifePredict(i, table) ==
    /\ LstmPredict(i, table)
    /\ UNCHANGED fc_hist

\* scaler.npz of a directory is deleted: the bundles of that directory are no
\* longer whole
LifeRemoveScaler(d) ==
    /\ RemoveScaler(d)
    /\ fc_hist' = Some([fc_hist[1] EXCEPT
            !.saved = [p \in ModelPaths |-> IF ScalerDir(p) = d THEN None ELSE @[p]]])

\* Call 0 stands for what made the instances as the run finds them: the
\* constructor, or a fit that returned
InitLifecycle ==
    /\ lstm \in {[i \in LifeInsts |-> FreshLSTM], [i \in LifeInsts |-> FittedBy(FitOfInst[i])]}
    /\ pers = FreshPersistence
    /\ fs_models = [p \in ModelPaths |-> None]
    /\ fs_scalers = [d \in Dirs |-> None]
    /\ fc_done = {i \in LifeInsts : lstm[i] /= FreshLSTM}
    /\ fc_last = NoCall
    /\ fc_saved = None
    /\ fc_calls = 0
    /\ fc_hist = Some([origin    |-> [i \in LifeInsts |-> [f \in LearnedFields |-> 0]],
                       completed |-> {0},
                       saved     |-> [p \in ModelPaths |-> None]])
    /\ q_out = None /\ bt_out = None /\ sc_out = None /\ th_heap = None /\ pr_threads = None
    /\ DpIdle /\ BfIdle

NextLifecycle ==
    /\ UNCHANGED <<dp_vars, bf_vars, q_out, bt_out, sc_out, th_heap, pr_threads>>
    /\ \/ \E i \in LifeInsts, fi \in FitInputs : LifeFit(i, fi)
       \/ \E i \in LifeInsts, p \in ModelPaths : LifeLoad(i, p)
       \/ \E i \in LifeInsts, p \in ModelPaths : LifeSave(i, p)
       \/ \E i \in LifeInsts, t \in LifeTables : LifePredict(i, t)
       \/ \E d \in Dirs : LifeRemoveScaler(d)

SpecLifecycle == InitLifecycle /\ [][NextLifecycle]_vars

\* C26: after any sequence of fit, load, save and predict calls on one
\* LSTMForecaster, including fit or load calls that raise part-way or find no
\* scaler file, whenever the instance accepts predict (a model is present) its
\* weights, scaler mean, scaler std and feature-column list all come from the same
\* completed fit or load.
C26_ParametersFromOneCompletedCall ==
    fc_hist /= None =>
        \A i \in LifeInsts :
            lstm[i].model /= None =>
                LET o == fc_hist[1].origin[i]
                IN  /\ o.model \in fc_hist[1].completed
                    /\ o.feature_cols = o.model
                    /\ o.scaler_mean = o.model
                    /\ o.scaler_std = o.model

\* C27: a persisted model keeps its own scaler: a load of a path that was saved
\* earlier restores the scaler statistics and the feature-column list the saved
\* instance had at save time, whatever was saved to other model paths in between.
C27_LoadRestoresSavedScaler ==
    (fc_hist /= None /\ fc_last.op = "load" /\ fc_last.result.raised = "") =>
        LET p == LoadPath(fc_last.path[1])[1]
            s == fc_hist[1].saved[p]
            me == lstm[fc_last.inst]
        IN  s /= None =>
               /\ me.scaler_mean = s[1].scaler_mean
               /\ me.scaler_std = s[1].scaler_std
               /\ me.feature_cols = s[1].feature_cols

(***************************************************************************)
(* Concurrent predict calls on fitted instances: several threads call      *)
(* predict / predict_latest of one LSTMForecaster and one PersistenceModel *)
(* with the same DataFrame object, and their statements interleave.  The   *)
(* content of a DataFrame object is [columns, n, normalised_by], the last  *)
(* being the scalers that have been applied to its feature columns.        *)
(***************************************************************************)

MaxThreads == 2         \* threads that call predict at the same time

Threads == 1..MaxThreads

PredictOps == {"lstm.predict", "lstm.predict_latest", "pers.predict", "pers.predict_latest"}

\* The tables the calls are made with: too short for predict_latest, too short
\* for one window, long enough
SharedTables ==
    {[columns |-> <<"wind_m_s", "f1", "f2">>, n |-> n, normalised_by |-> <<>>] :
        n \in {1, SequenceLength + MaxOfHorizons, MaxRows}}

IdleThread == [op |-> "none", pc |-> "none", df_norm_is |-> "none", df_norm |-> None,
               result |-> None, overlapped |-> FALSE]

CopyOf_Alias(df) == "argument"

\* lstm_model.py line 253: df_norm = df.copy(), a new object
CopyOf(df) == "copy"

\* The scaler of an instance as line 254 reads it
ScalerOf(inst) == [mean |-> inst.scaler_mean, std |-> inst.scaler_std]

\* The table a DataFrame content stands for in lstm_predict and pers_predict
AsTable(content) == [columns |-> content.columns, n |-> content.n]

\* What a call returns, with the normalisations its input values went through
Outcome(out, norm) == [out |-> out, norm |-> norm]

\* Some other thread is in the middle of a call
OthersRunning(t) ==
    \E u \in Threads \ {t} : pr_threads[1].threads[u].pc \notin {"none", "done"}

Advance(t, thread, table) ==
    pr_threads' = Some([pr_threads[1] EXCEPT
        !.table = table,
        !.threads[t] = [thread EXCEPT !.overlapped = @ \/ OthersRunning(t)]])

\* A thread enters predict or predict_latest
PredictCall(t, op) ==
    /\ pr_threads /= None
    /\ pr_threads[1].threads[t].pc = "none"
    /\ Advance(t, [pr_threads[1].threads[t] EXCEPT !.op = op, !.pc = "begin"], pr_threads[1].table)
    /\ UNCHANGED <<lstm, pers>>

\* LSTMForecaster: the checks of lines 286-289 (predict_latest) and of line 249
LstmBegin(t) ==
    LET me == pr_threads[1].threads[t]
        df == pr_threads[1].table
    IN  /\ pr_threads /= None
        /\ me.pc = "begin"
        /\ me.op \in {"lstm.predict", "lstm.predict_latest"}
        /\ IF me.op = "lstm.predict_latest" /\ df.n < SequenceLength
           THEN Advance(t, [me EXCEPT !.pc = "done",
                               !.result = Some(Outcome(lstm_predict_latest(lstm["a"], AsTable(df)), <<>>))], df)
           ELSE IF NotFitted(lstm["a"])
           THEN Advance(t, [me EXCEPT !.pc = "done",
                               !.result = Some(Outcome(lstm_predict(lstm["a"], AsTable(df)), <<>>))], df)
           ELSE Advance(t, [me EXCEPT !.pc = "copy"], df)
        /\ UNCHANGED <<lstm, pers>>

\* line 253: df_norm = df.copy()
LstmCopy(t) ==
    LET me == pr_threads[1].threads[t]
        df == pr_threads[1].table
    IN  /\ pr_threads /= None
        /\ me.pc = "copy"
        /\ Advance(t, [me EXCEPT !.pc = "normalise",
                                 !.df_norm_is = CopyOf(df),
                                 !.df_norm = IF CopyOf(df) = "copy" THEN Some(df) ELSE None], df)
        /\ UNCHANGED <<lstm, pers>>

\* line 254: df_norm[self.feature_cols] = (df[self.feature_cols] - mean) / std,
\* written into the object df_norm is bound to
LstmNormalise(t) ==
    LET me  == pr_threads[1].threads[t]
        df  == pr_threads[1].table
        new == [(IF me.df_norm_is = "copy" THEN me.df_norm[1] ELSE df)
                   EXCEPT !.normalised_by = Append(df.normalised_by, ScalerOf(lstm["a"]))]
    IN  /\ pr_threads /= None
        /\ me.pc = "normalise"
        /\ IF ~HasColumns(AsTable(df), Get(lstm["a"].feature_cols))
           THEN Advance(t, [me EXCEPT !.pc = "done",
                               !.result = Some(Outcome(lstm_predict(lstm["a"], AsTable(df)), <<>>))], df)
           ELSE IF me.df_norm_is = "copy"
           THEN Advance(t, [me EXCEPT !.pc = "infer", !.df_norm = Some(new)], df)
           ELSE Advance(t, [me EXCEPT !.pc = "infer"], new)
        /\ UNCHANGED <<lstm, pers>>

\* lines 257-274 (and 294-297 for predict_latest): sequences of df_norm, the
\* network's output, the mapping returned
LstmInfer(t) ==
    LET me      == pr_threads[1].threads[t]
        df      == pr_threads[1].table
        df_norm == IF me.df_norm_is = "copy" THEN me.df_norm[1] ELSE df
        out     == IF me.op = "lstm.predict" THEN lstm_predict(lstm["a"], AsTable(df_norm))
                   ELSE lstm_predict_latest(lstm["a"], AsTable(df_norm))
    IN  /\ pr_threads /= None
        /\ me.pc = "infer"
        /\ Advance(t, [me EXCEPT !.pc = "done",
                                 !.result = Some(Outcome(out, IF out.raised = "" THEN df_norm.normalised_by
                                                              ELSE <<>>))], df)
        /\ UNCHANGED <<lstm, pers>>

\* PersistenceModel.predict (baseline.py lines 57-78) and predict_latest (97-117)
PersCall(t) ==
    LET me  == pr_threads[1].threads[t]
        df  == pr_threads[1].table
        out == IF me.op = "pers.predict" THEN pers_predict(pers, AsTable(df))
               ELSE pers_predict_latest(pers, AsTable(df))
    IN  /\ pr_threads /= None
        /\ me.pc = "begin"
        /\ me.op \in {"pers.predict", "pers.predict_latest"}
        /\ Advance(t, [me EXCEPT !.pc = "done",
                                 !.result = Some(Outcome(out, df.normalised_by))], df)
        /\ UNCHANGED <<lstm, pers>>

\* Both instances are fitted before the threads start
InitConcurrent ==
    /\ lstm = [i \in {"a"} |-> FittedBy(FitOfInst["a"])]
    /\ pers = [is_fitted |-> TRUE]
    /\ fs_models = [p \in ModelPaths |-> None]
    /\ fs_scalers = [d \in Dirs |-> None]
    /\ fc_done = {"a", "p"}
    /\ fc_last = NoCall
    /\ fc_saved = None
    /\ fc_calls = 0
    /\ \E df \in SharedTables :
          pr_threads = Some([table |-> df, table0 |-> df, lstm0 |-> lstm, pers0 |-> pers,
                             threads |-> [t \in Threads |-> IdleThread]])
    /\ q_out = None /\ bt_out = None /\ sc_out = None /\ th_heap = None /\ fc_hist = None
    /\ DpIdle /\ BfIdle

NextConcurrent ==
    /\ UNCHANGED <<dp_vars, bf_vars, q_out, bt_out, sc_out, th_heap, fc_hist>>
    /\ UNCHANGED <<fs_models, fs_scalers, fc_done, fc_last, fc_saved, fc_calls>>
    /\ \/ \E t \in Threads, op \in PredictOps : PredictCall(t, op)
       \/ \E t \in Threads : LstmBegin(t)
       \/ \E t \in Threads : LstmCopy(t)
       \/ \E t \in Threads : LstmNormalise(t)
       \/ \E t \in Threads : LstmInfer(t)
       \/ \E t \in Threads : PersCall(t)

SpecConcurrent == InitConcurrent /\ [][NextConcurrent]_vars

\* What the call `op` returns when it runs alone on the fitted instances and the
\* table as they were before any thread started
Sequential(op, lstm0, pers0, df0) ==
    LET out == CASE op = "lstm.predict"        -> lstm_predict(lstm0["a"], AsTable(df0))
                 [] op = "lstm.predict_latest" -> lstm_predict_latest(lstm0["a"], AsTable(df0))
                 [] op = "pers.predict"        -> pers_predict(pers0, AsTable(df0))
                 [] op = "pers.predict_latest" -> pers_predict_latest(pers0, AsTable(df0))
    IN  Outcome(out, IF out.raised = "" /\ op \in {"lstm.predict", "lstm.predict_latest"}
                     THEN <<ScalerOf(lstm0["a"])>> ELSE <<>>)

\* C21: predict and predict_latest on a fitted forecaster never modify the
\* instance's learned parameters nor the input table, so in any interleaving of
\* predict calls every call returns what it returns when the calls run one after
\* the other.
C21_ConcurrentPredictIsSequential ==
    pr_threads /= None =>
        LET s == pr_threads[1]
        IN  /\ lstm = s.lstm0
            /\ pers = s.pers0
            /\ s.table = s.table0
            /\ \A t \in Threads :
                  s.threads[t].result /= None =>
                      s.threads[t].result[1] = Sequential(s.threads[t].op, s.lstm0, s.pers0, s.table0)

\* C21 witness: two calls that overlapped in time have both returned forecasts,
\* one of them from the LSTM forecaster
C21_Witness ==
    /\ pr_threads /= None
    /\ \E t, u \in Threads :
          /\ t /= u
          /\ pr_threads[1].threads[t].op = "lstm.predict"
          /\ pr_threads[1].threads[u].op \in {"lstm.predict_latest", "pers.predict"}
          /\ \A v \in {t, u} :
                /\ pr_threads[1].threads[v].pc = "done"
                /\ pr_threads[1].threads[v].overlapped
                /\ pr_threads[1].threads[v].result[1].out.raised = ""

====
